---- MODULE Spec2Model ----
(***************************************************************************)
(* Model of the content-acquisition pipeline of crypto_agent:              *)
(*   - batchProcessWithRateLimit   (utils/batch-processor.js)              *)
(*   - searchWithExa               (services/search.js)                    *)
(*   - UniversalScraper.scrapeUrl  (services/scraper.ts)                   *)
(* Every asynchronous call is a task that is started by one step and       *)
(* settles in a later step; steps of different tasks interleave freely.    *)
(***************************************************************************)
EXTENDS Integers, Sequences, FiniteSets, TLC

VARIABLES
    caller,      \* which entry point this run executes
    items,       \* batchProcessWithRateLimit: argument items
    batchSize,   \* batchProcessWithRateLimit: argument batchSize
    maxRetries,  \* batchProcessWithRateLimit: argument maxRetries
    i,           \* batchProcessWithRateLimit: loop index of the for loop
    results,     \* batchProcessWithRateLimit: const results = []
    bpc,         \* batchProcessWithRateLimit: position of the outer async function
    task,        \* per item: the async closure of batch.map (pc, attempt, delay, ...)
    slept,       \* number of inter-batch delays that have elapsed
    spc,         \* searchWithExa: position of the async function
    exaLog,      \* per query: the outcomes of its exa.searchAndContents calls
    finalResults,\* searchWithExa: the array it sorts and returns as results
    urls,        \* searchWithExa: the array it returns as urls
    url,         \* scrapeUrl: argument url
    scpc,        \* scrapeUrl: position of the async function
    strategy,    \* scrapeUrl: the promises of the four extraction methods
    settleOrder, \* the order in which the four promises settled
    scraped,     \* scrapeUrl: the ScrapedContent returned, or the error thrown
    scrapedContentArray, \* UniversalScraper.scrapedContentArray
    smUrls,      \* scrapeMultiple: argument urls
    smpc,        \* scrapeMultiple: position of the async function
    scrapeTask,  \* scrapeMultiple: the promises of urls.map(scrapeUrl)
    scrapedResults, \* scrapeMultiple: the array it returns
    savedFiles,  \* the batches written to scraped-content/*.json
    scrapeCalls, \* per call of a tool: the scrapeMultiple call on its one scraper
    originalQuery,  \* generateSynonyms: argument originalQuery
    gspc,        \* generateSynonyms: position of the async function
    modelOutcome,   \* what agent.runner.ask returned or threw
    synonymResponse, \* generateSynonyms: the SynonymResponse it returns
    missingTokens,  \* searchForMissingTokens: argument missingTokens
    existingUrls,   \* searchForMissingTokens: argument existingUrls, an array
    additionalContents, \* searchForMissingTokens: const additionalContents = []
    bfpc,        \* searchForMissingTokens: the await the function is at
    tokenIdx,    \* searchForMissingTokens: position of for (const token ...)
    queryIdx,    \* searchForMissingTokens: position of for (const query ...)
    itemIdx,     \* searchForMissingTokens: position of for (const item ...)
    searchHits,  \* searchForMissingTokens: result.results of the template
    discarded,   \* the URLs whose scraped content failed the test of a token
    accepted,    \* per missing token: the documents accepted in its turn
    settled,     \* how the last await of searchForMissingTokens ended
    ppc,         \* processCryptoQuery: the await the function is at
    calls,       \* the services processCryptoQuery has called, in order
    searchQueries,  \* processCryptoQuery: const searchQueries
    searchUrls,  \* processCryptoQuery: searchResult.urls
    scrapedContents, \* processCryptoQuery: let scrapedContents
    detectedTokens, \* processCryptoQuery: const detectedTokens
    realTokens,  \* processCryptoQuery: const realTokens
    tokenCoverage,  \* processCryptoQuery: const tokenCoverage
    output,      \* processCryptoQuery: the string it returns
    log,         \* processCryptoQuery: what it reported with console.log
    cachedCoinGeckoAssets, \* index.ts: let cachedCoinGeckoAssets
    potentialTokens, \* retrieveCoinIDs, findMatchingAssets: argument potentialTokens
    knowledgeBase,  \* retrieveCoinIDs, findMatchingAssets: the catalog argument
    detectedAssets, \* retrieveCoinIDs, findMatchingAssets: the array returned
    rpc          \* which of the two functions has returned

batchVars == <<items, batchSize, maxRetries, i, results, bpc, task, slept>>

searchVars == <<spc, exaLog, finalResults, urls>>

scrapeVars == <<url, scpc, strategy, settleOrder, scraped, scrapedContentArray>>

multiVars ==
    <<smUrls, smpc, scrapeTask, scrapedResults, savedFiles, scrapeCalls>>

expandVars == <<originalQuery, gspc, modelOutcome, synonymResponse>>

backfillVars ==
    <<missingTokens, existingUrls, additionalContents, bfpc, tokenIdx,
      queryIdx, itemIdx, searchHits, discarded, accepted, settled>>

processVars ==
    <<ppc, calls, searchQueries, searchUrls, scrapedContents, detectedTokens,
      realTokens, tokenCoverage, output, log, cachedCoinGeckoAssets>>

pipeVars == <<multiVars, expandVars, backfillVars, processVars>>

toolVars == <<potentialTokens, knowledgeBase, detectedAssets, rpc>>

vars == <<caller, batchVars, searchVars, scrapeVars, pipeVars, toolVars>>

-----------------------------------------------------------------------------
(* Bounds of the model *)
MaxItems == 3
MaxBatchSize == 3
MaxRetriesArg == 2
MaxQueries == 6
MaxContentLength == 2
MaxUrls == 3
MaxLines == 3
MaxMissing == 2
MaxResultUrls == 2
MaxTokens == 2

(* Program constants *)
BaseDelayMs == 1000
DefaultMaxRetries == 4
TooManyRequests == 429
SearchBatchSize == 5
NumResults == 3
OverallCap == 15
DefaultMaxContentLength == 50000
MaxSynonyms == 8
MaxBasicSynonyms == 4
TemplatesPerToken == 5
BackfillNumResults == 2

\* A value as a JavaScript variable holds it: null, or a value that is not null
Null == [null |-> TRUE, value |-> <<>>]
Val(v) == [null |-> FALSE, value |-> v]
NoOutcome == [kind |-> "none"]

-----------------------------------------------------------------------------
(* Outcomes of one invocation of fn(item) *)

\* Errors a collaborator call can throw: err.response.status and err.message
\* (status 0 stands for an error that carries no response).
Errors ==
    { [status |-> TooManyRequests, message |-> "Too Many Requests"],
      [status |-> 0, message |-> "Rate limit exceeded"],
      [status |-> 500, message |-> "Internal Server Error"] }

\* The messages of the error universe that the regex /rate.?limit/i matches.
RateLimitMessages == {"Rate limit exceeded", "ratelimit reached", "RATE-LIMIT"}

Throws(e) == [kind |-> "throw", err |-> e]
Returns(v) == [kind |-> "return", value |-> v]

\* The value the generic action returns for an item when it succeeds.
FnValue(item) == <<"result-of", item>>

\* What one invocation of the generic action can do; in the runs that are
\* checked for termination it returns or fails with status 429
FnOutcomes(item) ==
    IF caller = "batch, every call settles"
    THEN {Returns(FnValue(item)), Throws([status |-> TooManyRequests, message |-> "Too Many Requests"])}
    ELSE {Returns(FnValue(item))} \cup {Throws(e) : e \in Errors}

-----------------------------------------------------------------------------
(* batchProcessWithRateLimit *)

\* line 22: err?.response?.status === 429 || /rate.?limit/i.test(err.message)
IsRateLimit(err) ==
    err.status = TooManyRequests \/ err.message \in RateLimitMessages

\* lines 22-23: the catch block retries iff rate limited and attempt < maxRetries
ShouldRetryMut(err, attempt) == attempt < maxRetries

ShouldRetry(err, attempt) == IsRateLimit(err) /\ attempt < maxRetries

\* line 27: delay *= 2
NextDelay(d) == d * 2

\* line 13: items.slice(i, i + batchSize), as the set of its (1-based) indices
BatchIdxMut(from) == {k \in 1..Len(items) : from < k /\ k <= from + batchSize + 1}

BatchIdx(from) == {k \in 1..Len(items) : from < k /\ k <= from + batchSize}

\* line 39: if (i + batchSize < items.length)
HasNextBatch(from) == from + batchSize < Len(items)

\* line 14: Promise.all resolves once every closure of the batch has resolved
BatchSettledMut(from) == \E k \in BatchIdx(from) : task[k].pc = "settled"

BatchSettled(from) == \A k \in BatchIdx(from) : task[k].pc = "settled"

\* line 14: the array Promise.all resolves to, in the order of the batch
BatchResultsMut(from) ==
    [j \in 1..Cardinality(BatchIdx(from)) |->
        task[from + Cardinality(BatchIdx(from)) + 1 - j].ret]

BatchResults(from) ==
    [j \in 1..Cardinality(BatchIdx(from)) |-> task[from + j].ret]

NewTask ==
    [pc |-> "none", attempt |-> 0, delay |-> 0, ret |-> Null,
     calls |-> 0, last |-> NoOutcome, waits |-> <<>>]

\* lines 12-20: loop test, slice, and batch.map starting every closure of the
\* batch synchronously up to its first await (the call of fn).
StartBatch ==
    /\ bpc = "loop"
    /\ i < Len(items)
    /\ task' = [k \in DOMAIN task |->
                  IF k \in BatchIdx(i)
                  THEN [task[k] EXCEPT !.pc = "fn", !.attempt = 0,
                                       !.delay = BaseDelayMs, !.calls = 1]
                  ELSE task[k]]
    /\ bpc' = "join"
    /\ UNCHANGED <<caller, toolVars, items, batchSize, maxRetries, i, results, slept, searchVars, scrapeVars, pipeVars>>

\* lines 12, 43: the loop test fails, return results
ReturnResults ==
    /\ bpc = "loop"
    /\ i >= Len(items)
    /\ bpc' = "done"
    /\ UNCHANGED <<caller, toolVars, items, batchSize, maxRetries, i, results, task, slept, searchVars, scrapeVars, pipeVars>>

\* lines 20-34: how the closure of item k continues when fn(item) ends with o
AfterFnMut(t, o) ==
    IF o.kind = "return"
    THEN [t EXCEPT !.pc = "settled", !.ret = Val(o.value), !.last = o]
    ELSE IF ShouldRetry(o.err, t.attempt)
         THEN [t EXCEPT !.pc = "wait", !.attempt = t.attempt + 1,
                        !.waits = Append(t.waits, t.delay), !.last = o]
         ELSE [t EXCEPT !.pc = "failed", !.ret = Null, !.last = o]

AfterFn(t, o) ==
    IF o.kind = "return"
    THEN [t EXCEPT !.pc = "settled", !.ret = Val(o.value), !.last = o]
    ELSE IF ShouldRetry(o.err, t.attempt)
         THEN [t EXCEPT !.pc = "wait", !.attempt = t.attempt + 1,
                        !.waits = Append(t.waits, t.delay), !.last = o]
         ELSE [t EXCEPT !.pc = "settled", !.ret = Null, !.last = o]

\* lines 20-34: the pending call fn(item) of item k settles
FnSettles(k) ==
    /\ caller \in {"batch", "batch, every call settles"}
    /\ task[k].pc = "fn"
    /\ \E o \in FnOutcomes(items[k]) :
          task' = [task EXCEPT ![k] = AfterFn(task[k], o)]
    /\ UNCHANGED <<caller, toolVars, items, batchSize, maxRetries, i, results, bpc, slept, searchVars, scrapeVars, pipeVars>>

\* lines 14, 38-41: Promise.all resolves, results.push(...batchResults), then
\* either the inter-batch timer is set or the loop goes on
JoinBatch ==
    /\ bpc = "join"
    /\ BatchSettled(i)
    /\ results' = results \o BatchResults(i)
    /\ IF HasNextBatch(i)
       THEN bpc' = "sleep" /\ i' = i
       ELSE bpc' = "loop" /\ i' = i + batchSize
    /\ UNCHANGED <<caller, toolVars, items, batchSize, maxRetries, task, slept, searchVars, scrapeVars, pipeVars>>

\* The timers set by setTimeout that have not fired yet: the inter-batch
\* timer (0) and the backoff timer of every item k that waits for its retry
PendingTimers ==
    (IF bpc = "sleep" THEN {0} ELSE {}) \cup {k \in DOMAIN task : task[k].pc = "wait"}

\* lines 40, 12: the inter-batch timer fires, i += batchSize;
\* lines 26-28, 20: a backoff timer fires, delay doubles, fn is called again
TimerFires(t) ==
    /\ t \in PendingTimers
    /\ IF t = 0
       THEN /\ slept' = slept + 1
            /\ i' = i + batchSize
            /\ bpc' = "loop"
            /\ task' = task
       ELSE /\ task' = [task EXCEPT ![t] =
                         [@ EXCEPT !.pc = "fn", !.delay = NextDelay(@),
                                   !.calls = @ + 1]]
            /\ UNCHANGED <<slept, i, bpc>>
    /\ UNCHANGED <<caller, toolVars, items, batchSize, maxRetries, results, searchVars, scrapeVars, pipeVars>>

\* No scrapeMultiple call is part of this run
NoMultiple ==
    /\ smUrls = <<>>
    /\ smpc = "idle"
    /\ scrapeTask = <<>>
    /\ scrapedResults = <<>>
    /\ savedFiles = <<>>
    /\ scrapeCalls = <<>>

\* No generateSynonyms call is part of this run
NoExpand ==
    /\ originalQuery = <<>>
    /\ gspc = "idle"
    /\ modelOutcome = NoOutcome
    /\ synonymResponse = <<>>

\* No searchForMissingTokens call is part of this run
NoBackfill ==
    /\ missingTokens = <<>>
    /\ existingUrls = <<>>
    /\ additionalContents = <<>>
    /\ bfpc = "idle"
    /\ tokenIdx = 0
    /\ queryIdx = 0
    /\ itemIdx = 0
    /\ searchHits = <<>>
    /\ discarded = {}
    /\ accepted = <<>>
    /\ settled = "none"

\* No processCryptoQuery call is part of this run
NoProcess ==
    /\ ppc = "idle"
    /\ calls = <<>>
    /\ searchQueries = <<>>
    /\ searchUrls = <<>>
    /\ scrapedContents = <<>>
    /\ detectedTokens = <<>>
    /\ realTokens = <<>>
    /\ tokenCoverage = <<>>
    /\ output = <<>>
    /\ log = <<>>
    /\ cachedCoinGeckoAssets = Null

\* No catalog resolution is part of this run
NoTool ==
    /\ potentialTokens = <<>>
    /\ knowledgeBase = <<>>
    /\ detectedAssets = <<>>
    /\ rpc = "idle"

\* No call of the pipeline around the three services is part of this run
NoPipe == NoMultiple /\ NoExpand /\ NoBackfill /\ NoProcess

\* No scrapeUrl call is part of this run
NoScrape ==
    /\ url = ""
    /\ scpc = "idle"
    /\ strategy = <<>>
    /\ settleOrder = <<>>
    /\ scraped = <<>>
    /\ scrapedContentArray = <<>>

BatchStep ==
    \/ StartBatch
    \/ ReturnResults
    \/ \E k \in DOMAIN task : FnSettles(k)
    \/ \E t \in PendingTimers : TimerFires(t)
    \/ JoinBatch

\* A call batchProcessWithRateLimit(its, size, fn, minDelayMs, retries)
BatchCall(its, size, retries) ==
    /\ items = its
    /\ batchSize = size
    /\ maxRetries = retries
    /\ i = 0
    /\ results = <<>>
    /\ bpc = "loop"
    /\ task = [k \in 1..Len(its) |-> NewTask]
    /\ slept = 0

-----------------------------------------------------------------------------
(* Specification of a direct call of batchProcessWithRateLimit *)

InitBatch ==
    /\ caller = "batch"
    /\ NoTool
    /\ spc = "idle"
    /\ exaLog = <<>>
    /\ finalResults = <<>>
    /\ urls = <<>>
    /\ NoScrape
    /\ NoPipe
    /\ \E n \in 0..MaxItems, size \in 1..MaxBatchSize, r \in 0..MaxRetriesArg :
          BatchCall([k \in 1..n |-> k], size, r)

NextBatch == BatchStep

SpecBatch == InitBatch /\ [][NextBatch]_vars

-----------------------------------------------------------------------------
(* Claims about batchProcessWithRateLimit *)

\* What the claims call a rate-limit failure: status 429 or a rate-limit message
RateLimited(o) ==
    /\ o.kind = "throw"
    /\ (o.err.status = 429 \/ o.err.message \in RateLimitMessages)

\* What position k of the output has to hold, given how item k's last call ended
Expected(k) ==
    IF task[k].last.kind = "return" THEN Val(FnValue(items[k])) ELSE Null

BatchOf(k) == (k - 1) \div batchSize

NumBatches == (Len(items) + batchSize - 1) \div batchSize

RECURSIVE Pow2(_)
Pow2(n) == IF n = 0 THEN 1 ELSE 2 * Pow2(n - 1)

\* C1: the output has the length of items and position k holds the result of
\* the action on items[k], or null when that item failed; at every moment the
\* results pushed so far are those of the first items, in input order.
C1_OrderPreserved ==
    /\ Len(results) <= Len(items)
    /\ \A k \in 1..Len(results) :
          task[k].pc = "settled" /\ results[k] = Expected(k)
    /\ bpc = "done" => Len(results) = Len(items)

C1_Witness ==
    /\ bpc = "done"
    /\ Len(items) = 3
    /\ batchSize = 2
    /\ results[1] = Null
    /\ results[2] = Val(FnValue(items[2]))
    /\ task[2].calls > 1
    /\ results[3] = Val(FnValue(items[3]))

\* C2: an item is started only when every item of the earlier batches has
\* settled and one inter-batch delay per earlier batch has elapsed; while the
\* batch is awaited all of its items have been started; the delay is taken
\* only when another batch follows, so never after the last batch.
C2_BatchOrdering ==
    /\ \A k \in DOMAIN task :
          task[k].pc # "none" =>
             /\ slept >= BatchOf(k)
             /\ \A j \in DOMAIN task :
                   BatchOf(j) < BatchOf(k) => task[j].pc = "settled"
             /\ \A j \in DOMAIN task :
                   BatchOf(j) = BatchOf(k) => task[j].pc # "none"
    /\ bpc = "join" => \A k \in BatchIdx(i) : task[k].calls >= 1
    /\ bpc = "sleep" => i + batchSize < Len(items)
    /\ slept <= (IF NumBatches = 0 THEN 0 ELSE NumBatches - 1)
    /\ bpc = "done" => slept = (IF NumBatches = 0 THEN 0 ELSE NumBatches - 1)

C2_Witness ==
    /\ Len(items) = 3
    /\ batchSize = 2
    /\ slept = 1
    /\ task[3].pc = "fn"
    /\ task[1].calls > 1
    /\ task[2].ret = Null

\* C3: a call is repeated only after a rate-limit failure, at most maxRetries
\* times, after waits of 1000, 2000, 4000, ... ms; any other failure, or a
\* rate-limit failure with the retries used up, settles the item as null for
\* good; every item of every batch is still processed.
C3_Inv ==
    /\ \A k \in DOMAIN task :
          LET t == task[k] IN
          /\ t.calls <= maxRetries + 1
          /\ t.pc = "wait" => RateLimited(t.last) /\ Len(t.waits) = t.calls
          /\ t.pc \in {"fn", "settled"} => Len(t.waits) = t.calls - 1
          /\ \A j \in 1..Len(t.waits) : t.waits[j] = 1000 * Pow2(j - 1)
          /\ t.pc = "settled" /\ t.last.kind = "throw" =>
                /\ t.ret = Null
                /\ RateLimited(t.last) => t.calls = maxRetries + 1
          /\ t.pc = "settled" /\ t.last.kind = "return" => t.ret # Null
    /\ bpc = "done" => \A k \in DOMAIN task : task[k].pc = "settled"

C3_Step ==
    \A k \in DOMAIN task :
       /\ task'[k].calls > task[k].calls /\ task[k].calls >= 1 =>
             RateLimited(task[k].last) /\ task[k].pc = "wait"
       /\ task[k].pc = "settled" => task'[k] = task[k]

C3_RetryPolicy == []C3_Inv /\ [][C3_Step]_vars

C3_Witness ==
    /\ bpc = "done"
    /\ Len(items) = 3
    /\ batchSize = 2
    /\ maxRetries = 2
    /\ task[1].calls = 3 /\ RateLimited(task[1].last) /\ results[1] = Null
    /\ task[2].calls = 1 /\ task[2].last.kind = "throw" /\ results[2] = Null
    /\ task[3].calls = 2 /\ results[3] = Val(FnValue(items[3]))

\* The items whose call fn(item) is pending, first calls and retries alike
InFlight == {k \in DOMAIN task : task[k].pc = "fn"}

\* C29: at every moment at most batchSize calls of the action are pending,
\* retries included, and all of them are calls for items of the batch that is
\* awaited; in searchWithExa, which passes 5, at most 5.
C29_InFlightBounded ==
    /\ Cardinality(InFlight) <= batchSize
    /\ InFlight # {} => bpc = "join" /\ InFlight \subseteq BatchIdx(i)
    /\ caller = "searchWithExa" => Cardinality(InFlight) <= 5

\* Both items of the first batch of size 2 are pending, each in a retry,
\* and the third item has not been started.
C29_Witness ==
    /\ Len(items) = 3
    /\ batchSize = 2
    /\ InFlight = {1, 2}
    /\ task[1].calls = 2
    /\ task[2].calls = 3
    /\ task[3].pc = "none"

\* A direct call that does not stand still: while a call of fn is pending, a
\* timer set by setTimeout is running or a continuation is ready, one of
\* them settles, fires or runs
InitBatchFair ==
    /\ caller = "batch, every call settles"
    /\ NoTool
    /\ spc = "idle"
    /\ exaLog = <<>>
    /\ finalResults = <<>>
    /\ urls = <<>>
    /\ NoScrape
    /\ NoPipe
    /\ \E n \in 0..MaxItems, size \in 1..MaxBatchSize, r \in 0..MaxRetriesArg :
          BatchCall([k \in 1..n |-> k], size, r)

SpecBatchFair == InitBatchFair /\ [][NextBatch]_vars /\ WF_vars(NextBatch)

\* C30: when what is pending settles, batchProcessWithRateLimit returns,
\* also when every call of the action fails with a rate-limit error; no
\* item is called more than maxRetries + 1 times, and every batch that is
\* started is completed: all of its items settle and the loop goes on.
C30_Terminates ==
    /\ <>(bpc = "done")
    /\ [](\A k \in DOMAIN task : task[k].calls <= maxRetries + 1)
    /\ (bpc = "join") ~>
          (/\ bpc # "join"
           /\ \A k \in DOMAIN task : k <= i + batchSize => task[k].pc = "settled")

\* The call has returned after every call of fn for every item failed with
\* a rate-limit error, maxRetries + 1 times each.
C30_Witness ==
    /\ bpc = "done"
    /\ Len(items) = 3
    /\ batchSize = 2
    /\ maxRetries = 2
    /\ \A k \in DOMAIN task :
          task[k].calls = maxRetries + 1 /\ RateLimited(task[k].last)
    /\ results = <<Null, Null, Null>>

-----------------------------------------------------------------------------
(* searchWithExa: the search provider *)

\* The publishedDate strings of the model and what new Date(s).getTime()
\* gives for them, in days; every other string is an Invalid Date (NaN).
NaN == [nan |-> TRUE, n |-> 0]
Num(n) == [nan |-> FALSE, n |-> n]

GetTime(s) ==
    CASE s = "2025-07-01" -> Num(20270)
      [] s = "2025-07-02" -> Num(20271)
      [] s = "2025-07-03" -> Num(20272)
      [] s = "1900-01-01" -> Num(0 - 25567)
      [] OTHER -> NaN

\* What the provider can put in item.publishedDate and item.title; "" stands
\* for an absent (undefined) or empty field: both are falsy.
ProviderDates == <<"2025-07-02", "", "2025-07-03", "n/a", "2025-07-01">>
ProviderTitles == <<"Market report", "">>

ProviderHit(u, d, t) ==
    [url |-> u,
     publishedDate |-> ProviderDates[(d % Len(ProviderDates)) + 1],
     title |-> ProviderTitles[(t % Len(ProviderTitles)) + 1]]

\* The result lists the provider can answer query number q with (URLs are
\* numbered): NumResults fresh URLs of that query; or a URL that query 1 also
\* returns and a URL that the next query also returns; or, for the first
\* query, no result at all.
FreshHits(q) ==
    [j \in 1..NumResults |-> ProviderHit(NumResults * (q - 1) + j, q + j, j)]

SharedHits(q) ==
    <<ProviderHit(1, q + 2, 1), ProviderHit(NumResults * q + 1, q + 1, 0)>>

ExaErrors == {e \in Errors : e.status # 0}

\* What one call exa.searchAndContents(query, searchOptions) can do.
ExaOutcomes(q) ==
    {Returns([results |-> FreshHits(q)]), Returns([results |-> SharedHits(q)])}
       \cup (IF q = 1 THEN {Returns([results |-> <<>>])} ELSE {})
       \cup {Throws(e) : e \in ExaErrors}

-----------------------------------------------------------------------------
(* searchWithExa *)

\* lines 31-36: result.results.map(item => ({url, title, publishedDate, query}))
MapHitsMut(res, query) ==
    [j \in 1..(Len(res) - 1) |->
        [url |-> res[j].url,
         title |-> IF res[j].title # "" THEN res[j].title ELSE "No Title",
         publishedDate |-> IF res[j].publishedDate # ""
                           THEN res[j].publishedDate ELSE "Unknown Date",
         query |-> query]]

MapHits(res, query) ==
    [j \in 1..Len(res) |->
        [url |-> res[j].url,
         title |-> IF res[j].title # "" THEN res[j].title ELSE "No Title",
         publishedDate |-> IF res[j].publishedDate # ""
                           THEN res[j].publishedDate ELSE "Unknown Date",
         query |-> query]]

\* lines 27-41: the action searchWithExa hands to the batch executor, given
\* what its call of exa.searchAndContents did
ExaFn(query, o) ==
    IF o.kind = "return"
    THEN Returns(MapHits(o.value.results, query))
    ELSE Returns(<<>>)

\* lines 27-41 inside part_013 lines 20-34: the pending provider call of
\* query k settles and the closure of the batch executor continues
ExaSettles(k) ==
    /\ caller = "searchWithExa"
    /\ task[k].pc = "fn"
    /\ \E o \in ExaOutcomes(items[k]) :
          /\ exaLog' = [exaLog EXCEPT ![k] = Append(@, o)]
          /\ task' = [task EXCEPT ![k] = AfterFn(task[k], ExaFn(items[k], o))]
    /\ UNCHANGED <<caller, toolVars, items, batchSize, maxRetries, i, results, bpc, slept,
                   spc, finalResults, urls, scrapeVars, pipeVars>>

RECURSIVE Flat(_)
\* line 45: Array.prototype.flat(), one level: arrays are spread, null is kept
Flat(rs) ==
    IF rs = <<>> THEN <<>>
    ELSE (IF Head(rs).null THEN <<Null>>
          ELSE [j \in 1..Len(Head(rs).value) |-> Val(Head(rs).value[j])])
         \o Flat(Tail(rs))

\* line 45: .filter(Boolean): null is dropped, objects are kept
FilterBoolean(xs) == SelectSeq(xs, LAMBDA x : ~x.null)

\* line 45: batchResults.flat().filter(Boolean).flat()
AllResults(rs) ==
    LET kept == FilterBoolean(Flat(rs))
    IN [j \in 1..Len(kept) |-> kept[j].value]

\* line 47: self.findIndex(r => r.url === result.url)
FindIndex(self, u) ==
    LET hits == {j \in 1..Len(self) : self[j].url = u}
    IN CHOOSE j \in hits : \A l \in hits : j <= l

FindLastIndex(self, u) ==
    LET hits == {j \in 1..Len(self) : self[j].url = u}
    IN CHOOSE j \in hits : \A l \in hits : j >= l

RECURSIVE FilterIdx(_, _, _)
FilterIdx(self, keep, j) ==
    IF j > Len(self) THEN <<>>
    ELSE (IF j \in keep THEN <<self[j]>> ELSE <<>>) \o FilterIdx(self, keep, j + 1)

\* lines 46-48: allResults.filter((result, index, self) => index === findIndex)
UniqueResultsMut(all) ==
    FilterIdx(all, {j \in 1..Len(all) : j = FindLastIndex(all, all[j].url)}, 1)

UniqueResults(all) ==
    FilterIdx(all, {j \in 1..Len(all) : j = FindIndex(all, all[j].url)}, 1)

\* line 49: uniqueResults.slice(0, 15)
Slice(xs, n) == IF Len(xs) <= n THEN xs ELSE SubSeq(xs, 1, n)

\* lines 50-54: the comparison function handed to sort
Comparefn(a, b) ==
    LET dateA == GetTime(IF a.publishedDate # "" THEN a.publishedDate ELSE "1900-01-01")
        dateB == GetTime(IF b.publishedDate # "" THEN b.publishedDate ELSE "1900-01-01")
    IN IF dateA.nan \/ dateB.nan THEN NaN ELSE Num(dateB.n - dateA.n)

\* Array.prototype.sort: a comparison result that is NaN counts as +0
SortCompareMut(a, b) ==
    LET v == Comparefn(a, b) IN IF v.nan THEN 0 - 1 ELSE v.n

SortCompare(a, b) ==
    LET v == Comparefn(a, b) IN IF v.nan THEN 0 ELSE v.n

Reverse(xs) == [j \in 1..Len(xs) |-> xs[Len(xs) + 1 - j]]

RECURSIVE RunEnd(_, _, _)
\* The sort of the runtime (V8, array of fewer than 64 elements): the length
\* of the initial run; idx is the last element known to belong to it
RunEnd(w, descending, idx) ==
    IF idx >= Len(w) THEN idx
    ELSE LET order == SortCompare(w[idx + 1], w[idx])
         IN IF descending
            THEN (IF order >= 0 THEN idx ELSE RunEnd(w, descending, idx + 1))
            ELSE (IF order < 0 THEN idx ELSE RunEnd(w, descending, idx + 1))

\* CountAndMakeRun: a strictly descending initial run is reversed in place
CountAndMakeRun(w) ==
    LET descending == SortCompare(w[2], w[1]) < 0
        runLength == RunEnd(w, descending, 2)
    IN [w |-> IF descending
              THEN Reverse(SubSeq(w, 1, runLength)) \o SubSeq(w, runLength + 1, Len(w))
              ELSE w,
        runLength |-> runLength]

RECURSIVE BinarySearch(_, _, _, _)
\* The place of pivot in the sorted prefix w[left+1..right] (0-based bounds)
BinarySearch(w, pivot, left, right) ==
    IF left >= right THEN left
    ELSE LET mid == left + ((right - left) \div 2)
         IN IF SortCompare(pivot, w[mid + 1]) < 0
            THEN BinarySearch(w, pivot, left, mid)
            ELSE BinarySearch(w, pivot, mid + 1, right)

RECURSIVE BinaryInsertionSort(_, _)
\* Elements w[start+1..] are inserted one by one into the sorted prefix
BinaryInsertionSort(w, start) ==
    IF start >= Len(w) THEN w
    ELSE LET pivot == w[start + 1]
             left == BinarySearch(w, pivot, 0, start)
             moved == SubSeq(w, 1, left) \o <<pivot>> \o SubSeq(w, left + 1, start)
                         \o SubSeq(w, start + 2, Len(w))
         IN BinaryInsertionSort(moved, start + 1)

\* lines 50-54: finalResults.sort(comparefn)
Sort(xs) ==
    IF Len(xs) < 2 THEN xs
    ELSE LET run == CountAndMakeRun(xs)
         IN BinaryInsertionSort(run.w, run.runLength)

\* lines 45-54: what searchWithExa makes of the batch executor's output
MergeResults(all) == Sort(Slice(UniqueResults(all), OverallCap))

\* lines 45-73: batchProcessWithRateLimit has returned; merge and return.
\* Reading r.url of a null element would throw and reject the call.
SearchMerge ==
    /\ spc = "batch"
    /\ bpc = "done"
    /\ LET flat == Flat(results)
       IN IF \E j \in 1..Len(FilterBoolean(flat)) : FilterBoolean(flat)[j].null
          THEN spc' = "rejected" /\ UNCHANGED <<finalResults, urls>>
          ELSE LET sorted == MergeResults(AllResults(results))
               IN /\ spc' = "done"
                  /\ finalResults' = sorted
                  /\ urls' = [j \in 1..Len(sorted) |-> sorted[j].url]
    /\ UNCHANGED <<caller, toolVars, batchVars, exaLog, scrapeVars, pipeVars>>

InitSearch ==
    /\ caller = "searchWithExa"
    /\ NoTool
    /\ spc = "batch"
    /\ finalResults = <<>>
    /\ urls = <<>>
    /\ NoScrape
    /\ NoPipe
    /\ \E n \in 0..MaxQueries :
          /\ BatchCall([k \in 1..n |-> k], SearchBatchSize, DefaultMaxRetries)
          /\ exaLog = [k \in 1..n |-> <<>>]

NextSearch ==
    \/ StartBatch
    \/ ReturnResults
    \/ \E k \in DOMAIN task : ExaSettles(k)
    \/ \E t \in PendingTimers : TimerFires(t)
    \/ JoinBatch
    \/ SearchMerge

SpecSearch == InitSearch /\ [][NextSearch]_vars

-----------------------------------------------------------------------------
(* Claims about searchWithExa *)

Last(xs) == xs[Len(xs)]

\* The provider call of query k has settled, and how it ended
Succeeded(k) == exaLog[k] # <<>> /\ Last(exaLog[k]).kind = "return"
Failed(k) == exaLog[k] # <<>> /\ Last(exaLog[k]).kind = "throw"

\* The hits the provider returned, in flattened query order, each named by
\* the number of its query and its URL
RECURSIVE FlattenedFrom(_)
FlattenedFrom(k) ==
    IF k > Len(exaLog) THEN <<>>
    ELSE (IF Succeeded(k)
          THEN [j \in 1..Len(Last(exaLog[k]).value.results) |->
                   [query |-> items[k], url |-> Last(exaLog[k]).value.results[j].url]]
          ELSE <<>>)
         \o FlattenedFrom(k + 1)

Flattened == FlattenedFrom(1)

\* The first cap hits with distinct URLs of a list, as a set
RECURSIVE FirstDistinct(_, _, _)
FirstDistinct(xs, seen, cap) ==
    IF xs = <<>> \/ cap = 0 THEN {}
    ELSE IF Head(xs).url \in seen THEN FirstDistinct(Tail(xs), seen, cap)
         ELSE {Head(xs)} \cup FirstDistinct(Tail(xs), seen \cup {Head(xs).url}, cap - 1)

Ident(h) == [query |-> h.query, url |-> h.url]

ReturnedIdents == {Ident(finalResults[j]) : j \in 1..Len(finalResults)}

DistinctUrls(xs) == {xs[j].url : j \in 1..Len(xs)}

\* The time a hit is dated at when a missing or unparsable date counts as
\* 1900-01-01
EffectiveTime(h) ==
    IF GetTime(h.publishedDate).nan THEN 0 - 25567 ELSE GetTime(h.publishedDate).n

\* C4 (as claimed): a query whose provider call failed with a rate-limit
\* error is called again, until a call ends otherwise or maxRetries retries
\* are used up, before it degrades to an empty result list.
C4_RateLimitRetried ==
    \A k \in DOMAIN exaLog :
       task[k].pc = "settled" /\ Failed(k) /\ RateLimited(Last(exaLog[k])) =>
          Len(exaLog[k]) = maxRetries + 1

C6_DedupAndCap ==
    spc = "done" =>
       /\ Len(finalResults) <= 15
       /\ \A a, b \in 1..Len(finalResults) :
             finalResults[a].url = finalResults[b].url => a = b
       /\ ReturnedIdents = FirstDistinct(Flattened, {}, 15)
       /\ Len(urls) = Len(finalResults)
       /\ \A j \in 1..Len(finalResults) : urls[j] = finalResults[j].url

\* More than 15 distinct URLs were found, one of them by two queries, and a
\* hit that was cut off is newer than a hit that was kept.
C6_Witness ==
    /\ spc = "done"
    /\ Len(finalResults) = 15
    /\ Cardinality(DistinctUrls(Flattened)) > 15
    /\ Len(Flattened) > Cardinality(DistinctUrls(Flattened))
    /\ \E l \in 1..Len(AllResults(results)) :
          /\ AllResults(results)[l].url \notin DistinctUrls(finalResults)
          /\ \E j \in 1..Len(finalResults) :
                /\ ~GetTime(finalResults[j].publishedDate).nan
                /\ EffectiveTime(AllResults(results)[l]) > EffectiveTime(finalResults[j])

\* C7 (as claimed): the returned hits are in descending order of publish
\* date, a hit without a parsable date counting as dated 1900-01-01.
C7_SortedByDate ==
    spc = "done" =>
       \A a, b \in 1..Len(finalResults) :
          a < b => EffectiveTime(finalResults[a]) >= EffectiveTime(finalResults[b])

\* C8: the merge (deduplicate by URL, cap at 15, sort by date) applied to
\* its own output returns that output, in the same order.
C8_MergeIdempotent ==
    spc = "done" => MergeResults(finalResults) = finalResults

\* The merge changed the raw list (duplicates, more than 15 hits, reordering)
\* and its output mixes hits with and without a parsable date.
C8_Witness ==
    /\ spc = "done"
    /\ Len(finalResults) = 15
    /\ Len(AllResults(results)) > Cardinality(DistinctUrls(AllResults(results)))
    /\ Slice(UniqueResults(AllResults(results)), 15) # finalResults
    /\ \E j \in 1..Len(finalResults) : GetTime(finalResults[j].publishedDate).nan
    /\ \E j \in 1..Len(finalResults) : ~GetTime(finalResults[j].publishedDate).nan

-----------------------------------------------------------------------------
(* Strings *)

\* A string is a sequence of runs: the word c written n >= 1 times in a row.
\* The words are the few the program tells apart (white space, its keywords,
\* the names of assets); every other word is one letter that is part of no
\* keyword.
Run(c, n) == [c |-> c, n |-> n]
Str(c) == <<Run(c, 1)>>

\* The number of characters of a word
Width(c) ==
    CASE c \in {"bitcoin", "Bitcoin"} -> 7
      [] c = "crypto" -> 6
      [] c \in {"dogecoin", "Dogecoin", "Untitled", "untitled"} -> 8
      [] c \in {"weather"} -> 7
      [] c \in {"today", "price"} -> 5
      [] c \in {"shib"} -> 4
      [] c \in {"and"} -> 3
      [] OTHER -> 1

RECURSIVE Length(_)
\* String.prototype.length
Length(s) ==
    IF s = <<>> THEN 0 ELSE Head(s).n * Width(Head(s).c) + Length(Tail(s))

\* The characters the class \s of a regular expression matches
IsSpace(c) == c \in {" ", "\n"}

RECURSIVE DropSpaces(_)
\* s without the white space it starts with
DropSpaces(s) ==
    IF s # <<>> /\ IsSpace(Head(s).c) THEN DropSpaces(Tail(s)) ELSE s

RECURSIVE TakeSpaces(_)
\* The white space s starts with
TakeSpaces(s) ==
    IF s # <<>> /\ IsSpace(Head(s).c)
    THEN <<Head(s)>> \o TakeSpaces(Tail(s))
    ELSE <<>>

RECURSIVE ReplaceSpaces(_)
\* s.replace(/\s+/g, ' ')
ReplaceSpaces(s) ==
    IF s = <<>> THEN <<>>
    ELSE IF IsSpace(Head(s).c)
         THEN Str(" ") \o ReplaceSpaces(DropSpaces(s))
         ELSE <<Head(s)>> \o ReplaceSpaces(Tail(s))

RECURSIVE Newlines(_)
\* The number of line feeds in s
Newlines(s) ==
    IF s = <<>> THEN 0
    ELSE (IF Head(s).c = "\n" THEN Head(s).n ELSE 0) + Newlines(Tail(s))

RECURSIVE LeadingBlanks(_)
\* The blanks s starts with
LeadingBlanks(s) ==
    IF s # <<>> /\ Head(s).c = " "
    THEN <<Head(s)>> \o LeadingBlanks(Tail(s))
    ELSE <<>>

RECURSIVE ReplaceBlankLines(_)
\* s.replace(/\n\s*\n\s*\n/g, '\n\n'): in a stretch of white space with three
\* line feeds or more, the part from the first line feed to the last one
\* becomes two line feeds
ReplaceBlankLines(s) ==
    IF s = <<>> THEN <<>>
    ELSE IF IsSpace(Head(s).c)
         THEN LET st == TakeSpaces(s)
              IN (IF Newlines(st) >= 3
                  THEN LeadingBlanks(st) \o <<Run("\n", 2)>>
                          \o Reverse(LeadingBlanks(Reverse(st)))
                  ELSE st)
                 \o ReplaceBlankLines(DropSpaces(s))
         ELSE <<Head(s)>> \o ReplaceBlankLines(Tail(s))

\* String.prototype.trim
Trim(s) == Reverse(DropSpaces(Reverse(DropSpaces(s))))

RECURSIVE Substring(_, _)
\* s.substring(0, k); a word that is cut leaves letters that are no keyword
Substring(s, k) ==
    IF s = <<>> \/ k <= 0 THEN <<>>
    ELSE LET r == Head(s)
             w == Width(r.c)
         IN IF r.n * w <= k
            THEN <<r>> \o Substring(Tail(s), k - r.n * w)
            ELSE (IF k \div w > 0 THEN <<Run(r.c, k \div w)>> ELSE <<>>)
                 \o (IF k % w > 0 THEN <<Run("x", k % w)>> ELSE <<>>)

RECURSIVE Stretches(_)
\* The number of maximal stretches of white space in s
Stretches(s) ==
    IF s = <<>> THEN 0
    ELSE IF IsSpace(Head(s).c) THEN 1 + Stretches(DropSpaces(s))
         ELSE Stretches(Tail(s))

\* s.split(/\s+/).length
SplitLength(s) == Stretches(s) + 1

\* The lower-case form of a word
LowerWord(c) ==
    CASE c = "Bitcoin" -> "bitcoin"
      [] c = "Dogecoin" -> "dogecoin"
      [] c = "Untitled" -> "untitled"
      [] c \in {"Today", "TODAY"} -> "today"
      [] c = "Shiba Inu" -> "shiba inu"
      [] OTHER -> c

\* String.prototype.toLowerCase
ToLowerCase(s) == [j \in DOMAIN s |-> Run(LowerWord(s[j].c), s[j].n)]

RECURSIVE MatchCount(_, _)
\* s.match(new RegExp(word, 'g'))?.length || 0
MatchCount(s, word) ==
    IF s = <<>> THEN 0
    ELSE (IF Head(s).c = word THEN Head(s).n ELSE 0) + MatchCount(Tail(s), word)

-----------------------------------------------------------------------------
(* UniversalScraper.scrapeUrl *)

\* lines 73-78: the four methods, in the order of the results array
Methods ==
    <<"axios-cheerio", "playwright-cheerio", "axios-readability",
      "playwright-readability">>

\* The text method m extracts when it extracts len characters, and the HTML
\* it was extracted from
Content(m, len) == IF len = 0 THEN <<>> ELSE <<Run(Methods[m], len)>>

\* A document is the sequence of its elements, each with its tag and text
Html(m, len) == <<[tag |-> "body", text |-> Content(m, len)]>>

\* How the promise of method m can settle: fulfilled with {content, html}
\* (content "" when the method caught its own error or found no text), or
\* rejected
StrategyOutcomes(m) ==
    {[status |-> "rejected", value |-> [content |-> <<>>, html |-> <<>>]]}
       \cup {[status |-> "fulfilled",
              value |-> [content |-> Content(m, len), html |-> Html(m, len)]]
                : len \in 0..MaxContentLength}

Pending == [status |-> "pending", value |-> [content |-> <<>>, html |-> <<>>]]

\* lines 65-70: Promise.allSettled resolves when no promise is pending
AllSettled == \A m \in DOMAIN strategy : strategy[m].status # "pending"

\* line 78: r.result.status === 'fulfilled' && r.result.value.content
UsableMut(r) == r.status = "fulfilled"

Usable(r) == r.status = "fulfilled" /\ r.value.content # <<>>

RECURSIVE SuccessfulFrom(_)
\* lines 73-79: the usable results in the order of the array, each with the
\* name of its method
SuccessfulFrom(m) ==
    IF m > Len(strategy) THEN <<>>
    ELSE (IF Usable(strategy[m])
          THEN <<[content |-> strategy[m].value.content,
                  html |-> strategy[m].value.html, method |-> Methods[m]]>>
          ELSE <<>>)
         \o SuccessfulFrom(m + 1)

\* lines 84-86: the callback of reduce
LongerMut(max, curr) ==
    IF Length(curr.content) >= Length(max.content) THEN curr ELSE max

Longer(max, curr) ==
    IF Length(curr.content) > Length(max.content) THEN curr ELSE max

RECURSIVE Reduce(_, _)
\* lines 84-86: results.reduce(callback), max starting as results[0]
Reduce(max, rest) ==
    IF rest = <<>> THEN max ELSE Reduce(Longer(max, Head(rest)), Tail(rest))

\* line 177: $('h1, title').first().text()
FirstHeading(html) ==
    LET hs == {j \in DOMAIN html : html[j].tag \in {"h1", "title"}}
    IN IF hs = {} THEN <<>>
       ELSE html[CHOOSE j \in hs : \A k \in hs : j <= k].text

\* lines 36-42, 269-275: cleanContent of a scraper constructed without options
CleanContent(content) ==
    Substring(Trim(ReplaceBlankLines(ReplaceSpaces(content))),
              DefaultMaxContentLength)

\* line 279
Keywords == <<"bitcoin", "ethereum", "crypto", "blockchain", "defi", "nft">>

RECURSIVE KeywordScore(_, _)
\* lines 280-282: keywords.reduce(...) from keyword number k on
KeywordScore(text, k) ==
    IF k > Len(Keywords) THEN 0
    ELSE MatchCount(text, Keywords[k]) + KeywordScore(text, k + 1)

\* lines 277-284: calculateRelevance, Math.min(score / 10, 1.0); the result
\* is kept in tenths, so that 3 stands for 0.3 and 10 for 1.0
CalculateRelevance(content, title) ==
    LET text == ToLowerCase(content \o Str(" ") \o title)
        score == KeywordScore(text, 1)
    IN IF score < 10 THEN score ELSE 10

\* lines 175-199: buildScrapedContent; the fields no claim reads (author,
\* publishDate, source, readingTime, tags) are left out
BuildScrapedContent(u, content, html, method) ==
    LET heading == Trim(FirstHeading(html))
        title == IF heading # <<>> THEN heading ELSE Str("Untitled")
        cleanedContent == CleanContent(content)
        wordCount == SplitLength(cleanedContent)
    IN [url |-> u, title |-> title, content |-> content, html |-> html,
        cleanedContent |-> cleanedContent,
        metadata |-> [wordCount |-> wordCount,
                      relevanceScore |-> CalculateRelevance(cleanedContent, title),
                      method |-> method]]

\* lines 63-70: the call starts the four methods and awaits allSettled
ScrapeCall(u) ==
    /\ url = u
    /\ scpc = "allSettled"
    /\ strategy = [m \in 1..Len(Methods) |-> Pending]
    /\ settleOrder = <<>>
    /\ scraped = <<>>
    /\ scrapedContentArray = <<>>

\* lines 93-148: the promise of method m settles
StrategySettles(m) ==
    /\ strategy[m].status = "pending"
    /\ \E o \in StrategyOutcomes(m) : strategy' = [strategy EXCEPT ![m] = o]
    /\ settleOrder' = Append(settleOrder, m)
    /\ UNCHANGED <<caller, toolVars, batchVars, searchVars, url, scpc, scraped,
                   scrapedContentArray, pipeVars>>

\* lines 65-90, 201-204: allSettled resolves; filter, throw or reduce, build
\* the ScrapedContent, push it to scrapedContentArray and return it
SelectBest ==
    /\ scpc = "allSettled"
    /\ AllSettled
    /\ LET successful == SuccessfulFrom(1)
       IN IF successful = <<>>
          THEN /\ scpc' = "rejected"
               /\ scraped' = <<"All methods failed">>
               /\ UNCHANGED scrapedContentArray
          ELSE LET best == Reduce(Head(successful), Tail(successful))
                   built == BuildScrapedContent(url, best.content, best.html,
                                                best.method)
               IN /\ scpc' = "resolved"
                  /\ scraped' = <<built>>
                  /\ scrapedContentArray' = Append(scrapedContentArray, built)
    /\ UNCHANGED <<caller, toolVars, batchVars, searchVars, url, strategy, settleOrder,
                   pipeVars>>

\* No batchProcessWithRateLimit or searchWithExa call is part of this run
NoBatch ==
    /\ items = <<>>
    /\ batchSize = 0
    /\ maxRetries = 0
    /\ i = 0
    /\ results = <<>>
    /\ bpc = "idle"
    /\ task = <<>>
    /\ slept = 0
    /\ spc = "idle"
    /\ exaLog = <<>>
    /\ finalResults = <<>>
    /\ urls = <<>>

InitScrape ==
    /\ caller = "scrapeUrl"
    /\ NoTool
    /\ NoBatch
    /\ NoPipe
    /\ \E u \in {"https://news.example/a", "https://www.example.org/b"} :
          ScrapeCall(u)

NextScrape ==
    \/ \E m \in DOMAIN strategy : StrategySettles(m)
    \/ SelectBest

SpecScrape == InitScrape /\ [][NextScrape]_vars

-----------------------------------------------------------------------------
(* Claims about scrapeUrl *)

NonEmpty(m) ==
    strategy[m].status = "fulfilled" /\ Length(strategy[m].value.content) > 0

\* The methods whose result is not empty and at least as long as every other
Longest ==
    {m \in DOMAIN strategy :
        /\ NonEmpty(m)
        /\ \A m2 \in DOMAIN strategy :
              NonEmpty(m2) =>
                 Length(strategy[m2].value.content) <= Length(strategy[m].value.content)}

Earliest(ms) == CHOOSE m \in ms : \A m2 \in ms : m <= m2

\* C9: scrapeUrl rejects, with 'All methods failed', exactly when every
\* method failed or gave empty content, and resolves when some method gave
\* content; when exactly one did, its content is what is returned.
C9_FallbackCompleteness ==
    /\ scpc = "rejected" =>
          /\ scraped = <<"All methods failed">>
          /\ \A m \in DOMAIN strategy : strategy[m].status # "pending" /\ ~NonEmpty(m)
    /\ scpc = "resolved" => \E m \in DOMAIN strategy : NonEmpty(m)
    /\ scpc = "resolved" =>
          \A m \in DOMAIN strategy :
             (\A m2 \in DOMAIN strategy : NonEmpty(m2) <=> m2 = m) =>
                /\ scraped[1].content = strategy[m].value.content
                /\ scraped[1].metadata.method = Methods[m]

\* Only the last method gave content; one method rejected, one was empty.
C9_Witness ==
    /\ scpc = "resolved"
    /\ strategy[1].status = "rejected"
    /\ strategy[2].status = "fulfilled" /\ strategy[2].value.content = <<>>
    /\ strategy[3].status = "rejected"
    /\ NonEmpty(4)
    /\ settleOrder[1] = 4
    /\ scraped[1].content = Content(4, 2)

\* C10: the selection is made when all four methods have settled, and it is
\* the longest non-empty result, the earliest method of the fixed order among
\* equally long ones, whatever the order in which the methods settled.
C10_SelectionRule ==
    scpc \in {"resolved", "rejected"} =>
       /\ \A m \in DOMAIN strategy : strategy[m].status # "pending"
       /\ Len(settleOrder) = 4
       /\ scpc = "resolved" =>
             /\ Longest # {}
             /\ scraped[1].metadata.method = Methods[Earliest(Longest)]
             /\ scraped[1].content = strategy[Earliest(Longest)].value.content
             /\ scraped[1].html = strategy[Earliest(Longest)].value.html

\* Methods 2 and 3 tie for the longest content, method 3 settled first and
\* method 1, with shorter content, settled last: method 2 is selected.
C10_Witness ==
    /\ scpc = "resolved"
    /\ settleOrder = <<3, 4, 2, 1>>
    /\ Length(strategy[1].value.content) = 1
    /\ Length(strategy[2].value.content) = 2
    /\ Length(strategy[3].value.content) = 2
    /\ strategy[4].status = "rejected"
    /\ scraped[1].metadata.method = "playwright-cheerio"

-----------------------------------------------------------------------------
(* UniversalScraper.scrapeMultiple *)

\* The addresses the pages of this model live at
Urls ==
    <<"https://news.example/a", "https://www.example.org/b",
      "https://blog.example/c", "https://coins.example/d">>

\* What the selection of scrapeUrl (lines 84-86) can come out as: the content
\* and the document of the best method. The contents differ in what the
\* cleaning and the scoring look at: length, white space, keywords.
BestResults ==
    { [content |-> <<Run("x", DefaultMaxContentLength + 1)>>,
       html |-> <<[tag |-> "body", text |-> Str("x")]>>,
       method |-> "axios-cheerio"],
      [content |-> <<Run("x", 8001)>>,
       html |-> <<[tag |-> "title", text |-> Str(" ")]>>,
       method |-> "playwright-cheerio"],
      [content |-> <<Run(" ", 1), Run("Bitcoin", 12), Run("\n", 3)>>,
       html |-> <<[tag |-> "body", text |-> Str("x")],
                  [tag |-> "h1", text |-> Str("Dogecoin")]>>,
       method |-> "axios-readability"],
      [content |-> <<Run("Dogecoin", 1), Run(" ", 2), Run("\n", 1),
                     Run("crypto", 3), Run("\n", 2), Run(" ", 1),
                     Run("\n", 1), Run("x", 5)>>,
       html |-> <<[tag |-> "title", text |-> Str("Dogecoin")],
                  [tag |-> "h1", text |-> Str("x")]>>,
       method |-> "playwright-readability"] }

\* The pages of a run: in a run of the whole pipeline the two pages that
\* name an asset
Pages ==
    IF caller = "processCryptoQuery"
    THEN {b \in BestResults :
             b.method \in {"axios-readability", "playwright-readability"}}
    ELSE BestResults

\* lines 63-91: how one scrapeUrl(u) can settle: rejected with 'All methods
\* failed', or fulfilled with the ScrapedContent built from the best result
ScrapeUrlOutcomes(u) ==
    {[status |-> "rejected", value |-> <<>>, reason |-> "All methods failed"]}
       \cup {[status |-> "fulfilled",
              value |-> <<BuildScrapedContent(u, b.content, b.html, b.method)>>,
              reason |-> ""]
                : b \in Pages}

PendingScrape == [status |-> "pending", value |-> <<>>, reason |-> ""]

\* lines 45-47: urls.map(url => this.scrapeUrl(url)) starts every scrapeUrl,
\* then the function awaits Promise.allSettled
ScrapeMultipleCall(us) ==
    /\ smUrls = us
    /\ smpc = "allSettled"
    /\ scrapeTask = [k \in DOMAIN us |-> PendingScrape]
    /\ scrapedResults = <<>>
    /\ savedFiles = <<>>
    /\ scrapeCalls = <<>>

\* lines 63-91, 201-204: scrapeUrl(urls[k]) settles; when it built a
\* ScrapedContent it also pushed it to scrapedContentArray
ScrapeUrlSettles(k) ==
    /\ smpc = "allSettled"
    /\ scrapeTask[k].status = "pending"
    /\ \E o \in ScrapeUrlOutcomes(smUrls[k]) :
          /\ scrapeTask' = [scrapeTask EXCEPT ![k] = o]
          /\ scrapedContentArray' =
                IF o.status = "fulfilled"
                THEN scrapedContentArray \o o.value
                ELSE scrapedContentArray
    /\ UNCHANGED <<caller, toolVars, batchVars, searchVars, url, scpc, strategy,
                   settleOrder, scraped, smUrls, smpc, scrapedResults,
                   savedFiles, scrapeCalls, expandVars, backfillVars,
                   processVars>>

\* lines 50-52: the predicate of the filter
FulfilledMut(r) == r.status = "rejected"

Fulfilled(r) == r.status = "fulfilled"

RECURSIVE FulfilledValues(_, _)
\* lines 49-53: results.filter(fulfilled).map(result => result.value), from
\* result number k on
FulfilledValues(rs, k) ==
    IF k > Len(rs) THEN <<>>
    ELSE (IF Fulfilled(rs[k]) THEN rs[k].value ELSE <<>>)
         \o FulfilledValues(rs, k + 1)

\* lines 45-60, 229-267: allSettled resolves; filter and map; when something
\* was scraped, saveAllScrapedContentToFile writes scrapedContentArray to a
\* file and clears it, or, when the write throws, logs and leaves it as it is
ScrapeMultipleReturns ==
    /\ smpc = "allSettled"
    /\ \A k \in DOMAIN scrapeTask : scrapeTask[k].status # "pending"
    /\ scrapedResults' = FulfilledValues(scrapeTask, 1)
    /\ \E written \in BOOLEAN :
          IF scrapedResults' # <<>> /\ written
          THEN /\ savedFiles' = Append(savedFiles, scrapedContentArray)
               /\ scrapedContentArray' = <<>>
          ELSE UNCHANGED <<savedFiles, scrapedContentArray>>
    /\ smpc' = "returned"
    /\ UNCHANGED <<caller, toolVars, batchVars, searchVars, url, scpc, strategy,
                   settleOrder, scraped, smUrls, scrapeTask, scrapeCalls,
                   expandVars, backfillVars, processVars>>

InitMultiple ==
    /\ caller = "scrapeMultiple"
    /\ NoTool
    /\ NoBatch
    /\ url = ""
    /\ scpc = "idle"
    /\ strategy = <<>>
    /\ settleOrder = <<>>
    /\ scraped = <<>>
    /\ scrapedContentArray = <<>>
    /\ NoExpand
    /\ NoBackfill
    /\ NoProcess
    /\ \E n \in 0..MaxUrls : ScrapeMultipleCall(SubSeq(Urls, 1, n))

NextMultiple ==
    \/ \E k \in DOMAIN scrapeTask : ScrapeUrlSettles(k)
    \/ ScrapeMultipleReturns

SpecMultiple == InitMultiple /\ [][NextMultiple]_vars

-----------------------------------------------------------------------------
(* Claims about buildScrapedContent and scrapeMultiple *)

\* C11 (as claimed): every ScrapedContent the scraper returns has a
\* cleanedContent of at most 8000 characters and, when wordCount > 0, a
\* relevanceScore from 0.3 to 0.9 (3 to 9 tenths).
C11_TruncationBound ==
    \A j \in DOMAIN scrapedResults :
       /\ Length(scrapedResults[j].cleanedContent) <= 8000
       /\ scrapedResults[j].metadata.wordCount > 0 =>
             /\ scrapedResults[j].metadata.relevanceScore >= 3
             /\ scrapedResults[j].metadata.relevanceScore <= 9

\* The URLs whose scrapeUrl resolved
Resolved == {k \in DOMAIN scrapeTask : scrapeTask[k].status = "fulfilled"}

\* The j-th smallest member of a set of numbers
Nth(S, j) == CHOOSE k \in S : Cardinality({m \in S : m < k}) = j - 1

\* C12: scrapeMultiple does not reject; what it returns is one
\* ScrapedContent for each URL whose scrapeUrl resolved, in the order of the
\* input URLs, and nothing for the others, so at most as many as the URLs.
C12_DropsFailedUrls ==
    /\ smpc \in {"idle", "allSettled", "returned"}
    /\ smpc = "returned" =>
          /\ Len(scrapedResults) = Cardinality(Resolved)
          /\ Len(scrapedResults) <= Len(smUrls)
          /\ \A j \in DOMAIN scrapedResults :
                /\ scrapedResults[j] = scrapeTask[Nth(Resolved, j)].value[1]
                /\ scrapedResults[j].url = smUrls[Nth(Resolved, j)]

\* Three URLs: the second failed, the third resolved before the first, and
\* the write of the batch file failed.
C12_Witness ==
    /\ smpc = "returned"
    /\ Len(smUrls) = 3
    /\ scrapeTask[2].status = "rejected"
    /\ Len(scrapedResults) = 2
    /\ Len(scrapedContentArray) = 2
    /\ scrapedContentArray[1].url = smUrls[3]
    /\ scrapedResults[1].url = smUrls[1]

-----------------------------------------------------------------------------
(* generateSynonyms *)

\* The answer of the model is the sequence of its lines. A line is a brace,
\* a member "key": value of an object, a numbered line k. "value", or prose.
Open == [kind |-> "{", key |-> 0, type |-> "", value |-> <<>>]
Close == [kind |-> "}", key |-> 0, type |-> "", value |-> <<>>]
Pair(k, t, v) == [kind |-> "pair", key |-> k, type |-> t, value |-> v]
Numbered(k, v) == [kind |-> "numbered", key |-> k, type |-> "", value |-> v]
Prose(v) == [kind |-> "prose", key |-> 0, type |-> "", value |-> v]

\* synonym-generator.ts line 112: the sentence the instruction asks for when
\* the question is not about crypto
RejectionSentence == Str("Sorry, please ask about crypto-related insights.")

\* Two strings with one blank between them
Sp(a, b) == a \o Str(" ") \o b

\* The queries of the model: one about no asset, one about one asset, two
\* about two
Queries ==
    { Sp(Str("weather"), Str("today")),
      Sp(Str("Dogecoin"), Str("price")),
      Sp(Sp(Str("Bitcoin"), Str("and")), Str("Dogecoin")),
      Sp(Sp(Str("shib"), Str("and")), Str("Dogecoin")) }

\* The lines an answer about the query q is made of
Lines(q) ==
    { Open, Close,
      Pair(1, "string", Sp(q, Str("news"))),
      Pair(1, "number", Str("7")),
      Pair(3, "string", Str(" ") \o q \o Str(" ")),
      Pair(2, "string", <<Run(" ", 2)>>),
      Numbered(1, Sp(q, Str("forecast"))),
      Prose(RejectionSentence) }

\* An answer with more members than generateSynonyms keeps
LongAnswer(q) ==
    <<Open>> \o [k \in 1..(MaxSynonyms + 1) |-> Pair(k, "string", Sp(q, Str("x")))]
       \o <<Close>>

\* All sequences of at most n members of S
SeqsUpTo(S, n) == UNION {[1..m -> S] : m \in 0..n}

\* The answers of the model: in a run of generateSynonyms alone every
\* sequence of at most MaxLines lines and the long answer; in a run of a
\* whole pipeline the rejection sentence and one object
Answers(q) ==
    IF ppc # "idle" /\ caller # "MainCryptoAgent"
    THEN {<<Prose(RejectionSentence)>>,
          <<Open, Pair(1, "string", Sp(q, Str("news"))), Close>>}
    ELSE SeqsUpTo(Lines(q), MaxLines) \cup {LongAnswer(q)}

\* line 145: agent.runner.ask throws, or returns a string
AskOutcomes(q) ==
    {Throws([status |-> 0, message |-> "model call failed"])}
       \cup {Returns(a) : a \in Answers(q)}

\* line 172: content.match(/\{[\s\S]*\}/): from the first { to the last },
\* <<>> when there is no such stretch
JsonMatch(content) ==
    LET opens == {j \in DOMAIN content : content[j].kind = "{"}
        closes == {j \in DOMAIN content : content[j].kind = "}"}
    IN IF opens = {} \/ closes = {} THEN <<>>
       ELSE LET a == CHOOSE j \in opens : \A k \in opens : j <= k
                b == CHOOSE j \in closes : \A k \in closes : j >= k
            IN IF a < b THEN SubSeq(content, a, b) ELSE <<>>

\* line 174: JSON.parse throws unless the text is one object: a brace, its
\* members, a brace
JsonValid(text) ==
    \A j \in 2..(Len(text) - 1) : text[j].kind = "pair"

\* line 174: the object JSON.parse returns: of the members with the same
\* key the last one counts
JsonParse(text) ==
    LET members == 2..(Len(text) - 1)
    IN [k \in {text[j].key : j \in members} |->
           text[CHOOSE j \in members :
                   /\ text[j].key = k
                   /\ \A j2 \in members : text[j2].key = k => j2 <= j]]

\* lines 178, 190: if (synonym && synonym !== originalQuery)
Keeps(synonym, q) == synonym # <<>> /\ synonym # q

RECURSIVE FromObject(_, _, _)
\* lines 175-182: for (const key in jsonData), which visits integer keys in
\* ascending order; the string values that are neither blank nor the query
FromObject(jsonData, keys, q) ==
    IF keys = {} THEN <<>>
    ELSE LET k == CHOOSE x \in keys : \A y \in keys : x <= y
             synonym == Trim(jsonData[k].value)
         IN (IF jsonData[k].type = "string" /\ Keeps(synonym, q)
             THEN <<synonym>> ELSE <<>>)
            \o FromObject(jsonData, keys \ {k}, q)

RECURSIVE FromLines(_, _)
\* lines 185-194: content.split('\n'), the lines of the form k. "text"
FromLines(content, q) ==
    IF content = <<>> THEN <<>>
    ELSE (IF Head(content).kind = "numbered" /\ Keeps(Trim(Head(content).value), q)
          THEN <<Trim(Head(content).value)>> ELSE <<>>)
         \o FromLines(Tail(content), q)

\* lines 201-204: the month and year of the day of the run
CurrentMonth == Str("July 2025")

\* lines 200-212: generateBasicSynonyms
GenerateBasicSynonyms(query) ==
    Slice(<<Sp(Sp(Str("Crypto trends related to"), query), CurrentMonth),
            Sp(Sp(query, Str("news update")), CurrentMonth),
            Sp(query, Str("current price analysis")),
            Sp(Sp(Str("Factors impacting"), query), CurrentMonth)>>,
          MaxBasicSynonyms)

\* lines 167-198: parseSynonyms
ParseSynonyms(content, q) ==
    LET jsonMatch == JsonMatch(content)
        synonyms ==
            IF jsonMatch = <<>> THEN <<>>
            ELSE IF JsonValid(jsonMatch)
                 THEN FromObject(JsonParse(jsonMatch), DOMAIN JsonParse(jsonMatch), q)
                 ELSE FromLines(content, q)
    IN IF Len(synonyms) > 0 THEN Slice(synonyms, MaxSynonyms)
       ELSE GenerateBasicSynonyms(q)

\* lines 131-133: the call builds the agent and asks the model
GenerateSynonymsCall(q) ==
    /\ originalQuery = q
    /\ gspc = "ask"
    /\ modelOutcome = NoOutcome
    /\ synonymResponse = <<>>

\* synonym-generator.ts lines 145-164: the model call settles; the answer is
\* parsed, an error is caught and answered with the basic synonyms
AskSettles ==
    /\ caller # "main"
    /\ gspc = "ask"
    /\ \E o \in AskOutcomes(originalQuery) :
          /\ modelOutcome' = o
          /\ synonymResponse' =
                IF o.kind = "throw"
                THEN <<[synonyms |-> GenerateBasicSynonyms(originalQuery),
                        originalQuery |-> originalQuery, model |-> "fallback"]>>
                ELSE <<[synonyms |-> ParseSynonyms(o.value, originalQuery),
                        originalQuery |-> originalQuery, model |-> "gpt-4o"]>>
    /\ gspc' = "resolved"
    /\ UNCHANGED <<caller, toolVars, batchVars, searchVars, scrapeVars, multiVars,
                   originalQuery, backfillVars, processVars>>

\* part_000 lines 305-320: the parse of the stand-alone script
ScriptSynonyms(content, q) ==
    LET jsonMatch == JsonMatch(content)
    IN IF jsonMatch = <<>> THEN <<>>
       ELSE IF JsonValid(jsonMatch)
            THEN FromObject(JsonParse(jsonMatch), DOMAIN JsonParse(jsonMatch), q)
            ELSE <<Sp(q, Str("analysis")), Sp(q, Str("trends")), Sp(q, Str("news"))>>

\* part_000 lines 290-325: generateSynonyms of the stand-alone script; the
\* model call is not guarded, so its error rejects the call
ScriptAskSettles ==
    /\ caller = "main"
    /\ gspc = "ask"
    /\ \E o \in AskOutcomes(originalQuery) :
          /\ modelOutcome' = o
          /\ IF o.kind = "throw"
             THEN gspc' = "rejected" /\ synonymResponse' = <<>>
             ELSE /\ gspc' = "resolved"
                  /\ synonymResponse' =
                        <<[synonyms |-> ScriptSynonyms(o.value, originalQuery),
                           originalQuery |-> originalQuery, model |-> "gpt-4o"]>>
    /\ UNCHANGED <<caller, toolVars, batchVars, searchVars, scrapeVars, multiVars,
                   originalQuery, backfillVars, processVars>>

InitExpand ==
    /\ caller \in {"generateSynonyms", "main"}
    /\ NoTool
    /\ NoBatch
    /\ NoScrape
    /\ NoMultiple
    /\ NoBackfill
    /\ NoProcess
    /\ \E q \in Queries : GenerateSynonymsCall(q)

NextExpand ==
    \/ AskSettles
    \/ ScriptAskSettles

SpecExpand == InitExpand /\ [][NextExpand]_vars

-----------------------------------------------------------------------------
(* Claims about generateSynonyms *)

\* The model answered with the rejection sentence and nothing else
Rejected == modelOutcome = Returns(<<Prose(RejectionSentence)>>)

\* C13 (as claimed): when the model answers with the rejection sentence,
\* generateSynonyms returns no synonym at all.
C13_RejectionPropagates ==
    gspc = "resolved" /\ Rejected => synonymResponse[1].synonyms = <<>>

\* The answer has no stretch from a { to a }
NotJson == modelOutcome.kind = "return" /\ JsonMatch(modelOutcome.value) = <<>>

\* The answer has such a stretch and it is no object
MalformedJson ==
    /\ modelOutcome.kind = "return"
    /\ JsonMatch(modelOutcome.value) # <<>>
    /\ ~JsonValid(JsonMatch(modelOutcome.value))

\* The answer is an object without a string value that is neither blank nor
\* the query
NoUsableValue ==
    /\ modelOutcome.kind = "return"
    /\ JsonMatch(modelOutcome.value) # <<>>
    /\ JsonValid(JsonMatch(modelOutcome.value))
    /\ \A j \in 2..(Len(JsonMatch(modelOutcome.value)) - 1) :
          LET member == JsonMatch(modelOutcome.value)[j]
          IN member.type # "string" \/ Trim(member.value) \in {<<>>, originalQuery}

\* C15 (as claimed): generateSynonyms resolves whatever the model does; when
\* the call throws, or the answer is no JSON, malformed JSON or JSON without
\* a usable string, the synonyms are the fallback set built from the query;
\* no synonym is empty or the query itself.
C15_ExpansionNeverFails ==
    /\ gspc # "rejected"
    /\ gspc = "resolved" =>
          /\ (modelOutcome.kind = "throw" \/ NotJson \/ MalformedJson \/ NoUsableValue)
                => synonymResponse[1].synonyms = GenerateBasicSynonyms(originalQuery)
          /\ \A j \in DOMAIN synonymResponse[1].synonyms :
                synonymResponse[1].synonyms[j] \notin {<<>>, originalQuery}

-----------------------------------------------------------------------------
(* searchForMissingTokens *)

\* The characters the class \w of a regular expression matches
IsWordChar(c) == ~IsSpace(c)

\* pattern.test(text) for a pattern of the token table. A pattern is given
\* by the lower-case words it matches: anywhere (bitcoin), when no word
\* character follows (btc(?!\w)), as a whole word (\bword\b), or when
\* crypto follows on the same line (word.*crypto)
Test(pattern, text) ==
    \E j \in DOMAIN text :
       LET w == LowerWord(text[j].c)
           ends == j = Len(text) \/ ~IsWordChar(text[j + 1].c)
           starts == j = 1 \/ ~IsWordChar(text[j - 1].c)
       IN \/ w \in pattern.anywhere
          \/ w \in pattern.ticker /\ ends
          \/ w \in pattern.whole /\ text[j].n = 1 /\ starts /\ ends
          \/ /\ w \in pattern.thenCrypto
             /\ \E k \in (j + 1)..Len(text) :
                   /\ LowerWord(text[k].c) = "crypto"
                   /\ \A l \in (j + 1)..k : text[l].c # "\n"

\* token-extractor.ts lines 9, 15, 16: three rows of the token table
CryptoPatterns ==
    << [name |-> "bitcoin",
        patterns |-> <<[anywhere |-> {"bitcoin"}, ticker |-> {"btc"},
                        whole |-> {}, thenCrypto |-> {}]>>],
       [name |-> "dogecoin",
        patterns |-> <<[anywhere |-> {"dogecoin"}, ticker |-> {"doge"},
                        whole |-> {}, thenCrypto |-> {}]>>],
       [name |-> "shiba",
        patterns |-> <<[anywhere |-> {"shiba inu", "shibainu"}, ticker |-> {"shib"},
                        whole |-> {}, thenCrypto |-> {}]>>] >>

\* search.js lines 117-119, 135-137 and index.ts lines 63-65:
\* token.patterns.some(pattern => pattern.test(title + ' ' + cleanedContent))
HasTokenContent(token, c) ==
    \E p \in DOMAIN token.patterns :
       Test(token.patterns[p], c.title \o Str(" ") \o c.cleanedContent)

\* The addresses a template search can come back with: in a run of the
\* whole pipeline one the main search has found too and one it has not
ResultUrls ==
    IF caller = "processCryptoQuery" THEN {Urls[1], Urls[3]}
    ELSE {Urls[k] : k \in 1..3}

\* line 102: the search of a template throws, or returns up to two results
TemplateSearchOutcomes ==
    {Throws([status |-> 500, message |-> "Internal Server Error"])}
       \cup {Returns([j \in DOMAIN us |-> [url |-> us[j]]]) :
                us \in {x \in SeqsUpTo(ResultUrls, BackfillNumResults) :
                           \A a, b \in DOMAIN x : a # b => x[a] # x[b]}}

\* The position of the function: the await it is at and the loop indices
At(pc, t, q, j) == [pc |-> pc, t |-> t, q |-> q, j |-> j]

\* line 89: the loop over the tokens goes on after token t, or the function
\* returns
AfterToken(t) ==
    IF t < Len(missingTokens) THEN At("search", t + 1, 1, 0)
    ELSE At("returned", t, 0, 0)

\* line 100: the loop over the templates goes on after template q
AfterTemplateMut(t, q) == AfterToken(t)

AfterTemplate(t, q) ==
    IF q < TemplatesPerToken THEN At("search", t, q + 1, 0) ELSE AfterToken(t)

\* lines 134-140: a document of additionalContents has the token
SomeHasTokenMut(t, contents) == FALSE

SomeHasToken(t, contents) ==
    \E k \in DOMAIN contents : HasTokenContent(missingTokens[t], contents[k])

\* lines 110-113, 134-140: the loop over the results goes on after result j
AfterItemMut(t, q, j, hits, existing, contents) ==
    IF j = 0 /\ hits # <<>> /\ (\A e \in DOMAIN existing : existing[e] # hits[1].url)
    THEN At("scrape", t, q, 1)
    ELSE AfterTemplate(t, q)

\* with the next URL that is not in existingUrls; after the last one the
\* template loop breaks when additionalContents has the token
AfterItem(t, q, j, hits, existing, contents) ==
    LET unseen == {k \in (j + 1)..Len(hits) :
                       \A e \in DOMAIN existing : existing[e] # hits[k].url}
    IN IF unseen # {}
       THEN At("scrape", t, q, CHOOSE k \in unseen : \A k2 \in unseen : k <= k2)
       ELSE IF SomeHasToken(t, contents) THEN AfterToken(t)
            ELSE AfterTemplate(t, q)

\* The function moves to position pos
MoveTo(pos) ==
    /\ bfpc' = pos.pc
    /\ tokenIdx' = pos.t
    /\ queryIdx' = pos.q
    /\ itemIdx' = pos.j

\* lines 83-102: the call; with a token to look for, the first template is
\* searched
BackfillCall(tokens, existing) ==
    /\ missingTokens = tokens
    /\ existingUrls = existing
    /\ additionalContents = <<>>
    /\ searchHits = <<>>
    /\ discarded = {}
    /\ accepted = [t \in DOMAIN tokens |-> 0]
    /\ settled = "none"
    /\ bfpc = IF tokens = <<>> THEN "returned" ELSE "search"
    /\ tokenIdx = IF tokens = <<>> THEN 0 ELSE 1
    /\ queryIdx = IF tokens = <<>> THEN 0 ELSE 1
    /\ itemIdx = 0

\* lines 101-113, 141-143: exa.searchAndContents of the template settles; an
\* error is logged and the next template follows
TemplateSearchSettles ==
    /\ bfpc = "search"
    /\ \E o \in TemplateSearchOutcomes :
          IF o.kind = "throw"
          THEN /\ MoveTo(AfterTemplate(tokenIdx, queryIdx))
               /\ settled' = "search failed"
               /\ UNCHANGED searchHits
          ELSE /\ searchHits' = o.value
               /\ settled' = "search returned"
               /\ MoveTo(AfterItem(tokenIdx, queryIdx, 0, o.value, existingUrls,
                                   additionalContents))
    /\ UNCHANGED <<caller, toolVars, batchVars, searchVars, scrapeVars, multiVars,
                   expandVars, processVars, missingTokens, existingUrls,
                   additionalContents, discarded, accepted>>

\* lines 115-140: scraper.scrapeUrl(item.url) settles; a failure is logged;
\* content with the token is pushed, its URL is pushed to existingUrls and
\* both loops break; other content is skipped. The scraper is an object of
\* this call, its scrapedContentArray is never read.
BackfillScrapeSettles ==
    /\ bfpc = "scrape"
    /\ \E o \in ScrapeUrlOutcomes(searchHits[itemIdx].url) :
          IF o.status = "fulfilled" /\ HasTokenContent(missingTokens[tokenIdx], o.value[1])
          THEN /\ additionalContents' = additionalContents \o o.value
               /\ existingUrls' = Append(existingUrls, searchHits[itemIdx].url)
               /\ accepted' = [accepted EXCEPT ![tokenIdx] = @ + 1]
               /\ settled' = "scrape accepted"
               /\ MoveTo(IF SomeHasToken(tokenIdx, additionalContents')
                         THEN AfterToken(tokenIdx)
                         ELSE AfterTemplate(tokenIdx, queryIdx))
               /\ UNCHANGED discarded
          ELSE /\ discarded' = IF o.status = "fulfilled"
                               THEN discarded \cup {searchHits[itemIdx].url}
                               ELSE discarded
               /\ settled' = IF o.status = "fulfilled" THEN "scrape skipped"
                             ELSE "scrape failed"
               /\ MoveTo(AfterItem(tokenIdx, queryIdx, itemIdx, searchHits,
                                   existingUrls, additionalContents))
               /\ UNCHANGED <<additionalContents, existingUrls, accepted>>
    /\ UNCHANGED <<caller, toolVars, batchVars, searchVars, scrapeVars, multiVars,
                   expandVars, processVars, missingTokens, searchHits>>

\* The sequences of at most n different members of the sequence xs
Picks(xs, n) ==
    {[j \in DOMAIN ks |-> xs[ks[j]]] :
        ks \in {x \in SeqsUpTo(DOMAIN xs, n) :
                   \A a, b \in DOMAIN x : a # b => x[a] # x[b]}}

InitBackfill ==
    /\ caller = "searchForMissingTokens"
    /\ NoTool
    /\ NoBatch
    /\ NoScrape
    /\ NoMultiple
    /\ NoExpand
    /\ NoProcess
    /\ \E tokens \in Picks(CryptoPatterns, MaxMissing), n \in 0..1 :
          BackfillCall(tokens, SubSeq(Urls, 1, n))

NextBackfill ==
    \/ TemplateSearchSettles
    \/ BackfillScrapeSettles

SpecBackfill == InitBackfill /\ [][NextBackfill]_vars

-----------------------------------------------------------------------------
(* Claims about searchForMissingTokens *)

Range(xs) == {xs[k] : k \in DOMAIN xs}

\* C19 (as claimed): only URLs that are not in the seen set are scraped, and
\* a URL whose content failed the test of a token is neither in the result
\* nor scraped again later in the same call.
C19_DiscardedNotRetried ==
    /\ bfpc = "scrape" =>
          /\ searchHits[itemIdx].url \notin Range(existingUrls)
          /\ searchHits[itemIdx].url \notin discarded
    /\ \A k \in DOMAIN additionalContents : additionalContents[k].url \notin discarded

\* The results of the template after result j whose URL has not been seen
Unseen(j) ==
    {k \in (j + 1)..Len(searchHits) : searchHits[k].url \notin Range(existingUrls)}

\* What C20 says of one step: after a failed scrape the next unseen URL of
\* the same template is scraped; after a failed search the next template of
\* the token is searched, or after its last template the next token.
C20_Step ==
    /\ (bfpc = "scrape" /\ settled' = "scrape failed" /\ Unseen(itemIdx) # {}) =>
          /\ bfpc' = "scrape"
          /\ tokenIdx' = tokenIdx /\ queryIdx' = queryIdx
          /\ itemIdx' \in Unseen(itemIdx)
          /\ \A k \in Unseen(itemIdx) : itemIdx' <= k
    /\ (bfpc = "search" /\ settled' = "search failed") =>
          IF queryIdx < TemplatesPerToken
          THEN bfpc' = "search" /\ tokenIdx' = tokenIdx /\ queryIdx' = queryIdx + 1
          ELSE IF tokenIdx < Len(missingTokens)
               THEN bfpc' = "search" /\ tokenIdx' = tokenIdx + 1 /\ queryIdx' = 1
               ELSE bfpc' = "returned"

\* C20: searchForMissingTokens does not reject when a template search or a
\* scrape fails: it goes on with the next URL, the next template and the
\* remaining tokens, and returns only after the last token.
C20_FailuresIsolated ==
    /\ [](bfpc \in {"search", "scrape", "returned"})
    /\ [](bfpc = "returned" => tokenIdx = Len(missingTokens))
    /\ [][C20_Step]_vars

\* The scrape of the first result of a template of the first token failed
\* and the second result is being scraped, after a template search failed.
C20_Witness ==
    /\ Len(missingTokens) = 2
    /\ tokenIdx = 1
    /\ queryIdx = 2
    /\ settled = "scrape failed"
    /\ bfpc = "scrape"
    /\ itemIdx = 2

\* What C28 says of one step: a step is the settling of the one awaited
\* operation. The search of another template is issued only by a step after
\* which no result of the template before is left to scrape, templates are
\* taken one by one, and the first template of the next token is searched
\* only when the token before has its document or has used its last
\* template.
C28_Step ==
    LET left == IF bfpc = "scrape" THEN Unseen(itemIdx)
                ELSE {k \in DOMAIN searchHits' :
                         searchHits'[k].url \notin Range(existingUrls)}
        issued == bfpc' = "search" /\ <<tokenIdx', queryIdx'>> # <<tokenIdx, queryIdx>>
    IN /\ bfpc \in {"search", "scrape"}
       /\ bfpc' = "scrape" =>
             /\ tokenIdx' = tokenIdx /\ queryIdx' = queryIdx
             /\ itemIdx' > itemIdx
             /\ itemIdx' \in DOMAIN searchHits'
       /\ issued =>
             /\ itemIdx' = 0
             /\ settled' = "search failed" \/ accepted' # accepted \/ left = {}
             /\ \/ tokenIdx' = tokenIdx /\ queryIdx' = queryIdx + 1
                \/ /\ tokenIdx' = tokenIdx + 1
                   /\ queryIdx' = 1
                   /\ \/ SomeHasToken(tokenIdx, additionalContents')
                      \/ queryIdx = TemplatesPerToken

\* C28: searchForMissingTokens is strictly sequential: it is at one await at
\* a time, a template search or the scrape of one result of the current
\* template; the search of a template is issued only after every scrape of
\* the template before has settled, and the first search of a token only
\* after the token before is finished.
C28_StrictlySequential ==
    /\ [](/\ bfpc \in {"search", "scrape", "returned"}
          /\ bfpc = "scrape" => itemIdx \in DOMAIN searchHits
          /\ bfpc = "search" => itemIdx = 0)
    /\ [][C28_Step]_vars

\* The second result of the fifth template of the first token was scraped
\* and skipped, and the first template of the second token is searched.
C28_Witness ==
    /\ Len(missingTokens) = 2
    /\ bfpc = "search"
    /\ tokenIdx = 2
    /\ queryIdx = 1
    /\ settled = "scrape skipped"
    /\ Len(searchHits) = 2
    /\ accepted = <<0, 0>>

-----------------------------------------------------------------------------
(* processCryptoQuery *)

RECURSIVE PotentialTokens(_, _)
\* token-extractor.ts lines 63-74: the words of two to ten letters of the
\* query in lower case that are not in the stop list, each with the pattern
\* \bword\b|wordusdt|wordusd|word.*crypto; from word number j on. The
\* queries of the model are single words with blanks between them.
PotentialTokens(query, j) ==
    IF j > Len(query) THEN <<>>
    ELSE LET word == LowerWord(query[j].c)
             potential ==
                 /\ IsWordChar(query[j].c)
                 /\ query[j].n = 1
                 /\ j = 1 \/ ~IsWordChar(query[j - 1].c)
                 /\ j = Len(query) \/ ~IsWordChar(query[j + 1].c)
                 /\ Width(word) >= 2
                 /\ Width(word) <= 10
                 /\ word \notin {"the", "and", "for", "with", "analysis",
                                 "technical", "price", "token", "coin",
                                 "crypto", "cryptocurrency"}
         IN (IF potential
             THEN <<[name |-> word,
                     patterns |-> <<[anywhere |-> {word \o "usdt", word \o "usd"},
                                     ticker |-> {}, whole |-> {word},
                                     thenCrypto |-> {word}]>>]>>
             ELSE <<>>)
            \o PotentialTokens(query, j + 1)

\* token-extractor.ts lines 59-77: the rows of the table with a pattern that
\* matches the query, or, when there is none, the potential tokens
ExtractCryptoTokens(query) ==
    LET Detected(crypto) ==
            \E p \in DOMAIN crypto.patterns : Test(crypto.patterns[p], query)
        detected == SelectSeq(CryptoPatterns, Detected)
    IN IF Len(detected) = 0 THEN PotentialTokens(query, 1) ELSE detected

\* index.ts lines 14-15: the catalog the market-data service answers with
CoinList ==
    << [id |-> "bitcoin", symbol |-> "btc", name |-> "Bitcoin"],
       [id |-> "dogecoin", symbol |-> "doge", name |-> "Dogecoin"],
       [id |-> "shiba-inu", symbol |-> "shib", name |-> "Shiba Inu"],
       [id |-> "today", symbol |-> "TODAY", name |-> "Today"] >>

\* index.ts lines 21-29: isTokenInCoinGecko
IsTokenInCoinGecko(tokenName, assets) ==
    LET lower == LowerWord(tokenName)
    IN \E a \in DOMAIN assets :
          \/ LowerWord(assets[a].name) = lower
          \/ LowerWord(assets[a].symbol) = lower
          \/ LowerWord(assets[a].id) = lower

\* index.ts lines 60-68, 82-89: for each real token the number of contents
\* with a pattern of the token in title + ' ' + cleanedContent
Coverage(tokens, contents) ==
    [k \in DOMAIN tokens |->
        Cardinality({d \in DOMAIN contents : HasTokenContent(tokens[k], contents[d])})]

\* index.ts lines 70-73: the real tokens whose coverage is 0
MissingTokensMut(tokens, coverage) == tokens

MissingTokens(tokens, coverage) ==
    LET RECURSIVE From(_)
        From(k) == IF k > Len(tokens) THEN <<>>
                   ELSE (IF coverage[k] = 0 THEN <<tokens[k]>> ELSE <<>>)
                        \o From(k + 1)
    IN From(1)

\* index.ts line 40: searchWithExa catches the errors of its searches and
\* resolves with the URLs it found
SearchResults == {SubSeq(Urls, 1, n) : n \in 0..MaxResultUrls}

\* index.ts line 15: axios.get throws, or answers with the catalog
AssetOutcomes ==
    {Throws([status |-> 500, message |-> "Internal Server Error"]),
     Returns(CoinList)}

\* analysis.js line 31: the analysis model throws, or answers with a report
AnalysisOutcomes ==
    {Throws([status |-> 0, message |-> "model call failed"]),
     Returns(Str("report"))}

\* index.ts lines 101-104: the catch of processCryptoQuery
ErrorOutput(err) == Sp(Str("Error processing query:"), Str(err.message))

\* index.ts lines 35-40: generateSynonyms has resolved; the query and its
\* synonyms are handed to searchWithExa
SynonymsReturned ==
    /\ ppc = "generateSynonyms"
    /\ gspc = "resolved"
    /\ searchQueries' = <<originalQuery>> \o synonymResponse[1].synonyms
    /\ ppc' = "searchWithExa"
    /\ calls' = Append(calls, "searchWithExa")
    /\ UNCHANGED <<caller, toolVars, batchVars, searchVars, scrapeVars, multiVars,
                   expandVars, backfillVars, searchUrls, scrapedContents,
                   detectedTokens, realTokens, tokenCoverage, output, log,
                   cachedCoinGeckoAssets>>

\* index.ts lines 40-43, scraper.ts lines 45-47: searchWithExa resolves; a
\* new scraper starts scrapeUrl for every URL and awaits Promise.allSettled
SearchSettles ==
    /\ ppc = "searchWithExa"
    /\ \E us \in SearchResults :
          /\ searchUrls' = us
          /\ smUrls' = us
          /\ scrapeTask' = [k \in DOMAIN us |-> PendingScrape]
    /\ smpc' = "allSettled"
    /\ ppc' = "scrapeMultiple"
    /\ calls' = Append(calls, "scrapeMultiple")
    /\ UNCHANGED <<caller, toolVars, batchVars, searchVars, scrapeVars, scrapedResults,
                   savedFiles, scrapeCalls, expandVars, backfillVars, searchQueries,
                   scrapedContents, detectedTokens, realTokens, tokenCoverage,
                   output, log, cachedCoinGeckoAssets>>

\* index.ts lines 43-50: scrapeMultiple has resolved; the tokens of the
\* query are extracted and the catalog is requested
ScrapeReturned ==
    /\ ppc = "scrapeMultiple"
    /\ smpc = "returned"
    /\ scrapedContents' = scrapedResults
    /\ detectedTokens' = ExtractCryptoTokens(originalQuery)
    /\ ppc' = "fetchAllCoinGeckoAssets"
    /\ calls' = Append(calls, "fetchAllCoinGeckoAssets")
    /\ UNCHANGED <<caller, toolVars, batchVars, searchVars, scrapeVars, multiVars,
                   expandVars, backfillVars, searchQueries, searchUrls,
                   realTokens, tokenCoverage, output, log,
                   cachedCoinGeckoAssets>>

\* The names of the tokens
Names(tokens) == [k \in DOMAIN tokens |-> tokens[k].name]

\* index.ts lines 57-59, 93-95: what console.log reports about the tokens
Reported(text, tokens) == [text |-> text, tokens |-> Names(tokens)]

\* index.ts lines 12-19, 50-97: fetchAllCoinGeckoAssets settles: with the
\* cached catalog when there is one, else with what axios.get does. An
\* error ends the run in the catch. Otherwise the detected tokens are split
\* into real and fake ones, the fake ones are reported, the coverage of the
\* real ones is counted, and either searchForMissingTokens is called with
\* the uncovered ones and a copy of the URLs (search.js lines 83-102), or
\* adequate coverage is reported and generateFinalAnalysis is called.
AssetsSettle ==
    /\ ppc = "fetchAllCoinGeckoAssets"
    /\ \E o \in IF cachedCoinGeckoAssets = Null THEN AssetOutcomes
                ELSE {Returns(cachedCoinGeckoAssets.value)} :
          IF o.kind = "throw"
          THEN /\ ppc' = "returned"
               /\ output' = ErrorOutput(o.err)
               /\ UNCHANGED <<realTokens, tokenCoverage, calls, backfillVars,
                              log, cachedCoinGeckoAssets>>
          ELSE LET InCatalog(token) == IsTokenInCoinGecko(token.name, o.value)
                   NotInCatalog(token) == ~InCatalog(token)
                   real == SelectSeq(detectedTokens, InCatalog)
                   fake == SelectSeq(detectedTokens, NotInCatalog)
                   coverage == Coverage(real, scrapedContents)
                   missing == MissingTokens(real, coverage)
                   fakeLog == IF Len(fake) > 0
                              THEN <<Reported("Unrecognized/fake assets", fake)>>
                              ELSE <<>>
               IN /\ cachedCoinGeckoAssets' = Val(o.value)
                  /\ realTokens' = real
                  /\ tokenCoverage' = coverage
                  /\ output' = output
                  /\ IF Len(missing) > 0
                     THEN /\ ppc' = "searchForMissingTokens"
                          /\ calls' = Append(calls, "searchForMissingTokens")
                          /\ log' = log \o fakeLog
                          /\ missingTokens' = missing
                          /\ existingUrls' = searchUrls
                          /\ additionalContents' = <<>>
                          /\ accepted' = [t \in DOMAIN missing |-> 0]
                          /\ MoveTo(At("search", 1, 1, 0))
                          /\ UNCHANGED <<searchHits, discarded, settled>>
                     ELSE /\ ppc' = "generateFinalAnalysis"
                          /\ calls' = Append(calls, "generateFinalAnalysis")
                          /\ log' = log \o fakeLog
                                       \o <<Reported("All tokens have adequate coverage", <<>>)>>
                          /\ UNCHANGED backfillVars
    /\ UNCHANGED <<caller, toolVars, batchVars, searchVars, scrapeVars, multiVars,
                   expandVars, searchQueries, searchUrls, scrapedContents,
                   detectedTokens>>

\* index.ts lines 77-97: searchForMissingTokens has resolved; when it found
\* something, the contents are appended and the coverage is counted again;
\* then generateFinalAnalysis is called with the contents
BackfillReturned ==
    /\ ppc = "searchForMissingTokens"
    /\ bfpc = "returned"
    /\ IF Len(additionalContents) > 0
       THEN /\ scrapedContents' = scrapedContents \o additionalContents
            /\ tokenCoverage' = Coverage(realTokens, scrapedContents')
       ELSE UNCHANGED <<scrapedContents, tokenCoverage>>
    /\ ppc' = "generateFinalAnalysis"
    /\ calls' = Append(calls, "generateFinalAnalysis")
    /\ UNCHANGED <<caller, toolVars, batchVars, searchVars, scrapeVars, multiVars,
                   expandVars, backfillVars, searchQueries, searchUrls,
                   detectedTokens, realTokens, output, log,
                   cachedCoinGeckoAssets>>

\* index.ts lines 97-104: generateFinalAnalysis settles; its report is
\* returned, its error ends the run in the catch
AnalysisSettles ==
    /\ ppc = "generateFinalAnalysis"
    /\ \E o \in AnalysisOutcomes :
          output' = IF o.kind = "throw" THEN ErrorOutput(o.err) ELSE o.value
    /\ ppc' = "returned"
    /\ UNCHANGED <<caller, toolVars, batchVars, searchVars, scrapeVars, multiVars,
                   expandVars, backfillVars, calls, searchQueries, searchUrls,
                   scrapedContents, detectedTokens, realTokens, tokenCoverage,
                   log, cachedCoinGeckoAssets>>

\* index.ts lines 32-35: the call; generateSynonyms(userQuery) is awaited
InitPipeline ==
    /\ caller = "processCryptoQuery"
    /\ NoTool
    /\ NoBatch
    /\ NoScrape
    /\ NoMultiple
    /\ NoBackfill
    /\ \E q \in Queries : GenerateSynonymsCall(q)
    /\ ppc = "generateSynonyms"
    /\ calls = <<"generateSynonyms">>
    /\ searchQueries = <<>>
    /\ searchUrls = <<>>
    /\ scrapedContents = <<>>
    /\ detectedTokens = <<>>
    /\ realTokens = <<>>
    /\ tokenCoverage = <<>>
    /\ output = <<>>
    /\ log = <<>>
    /\ cachedCoinGeckoAssets = Null

NextPipeline ==
    \/ AskSettles
    \/ SynonymsReturned
    \/ SearchSettles
    \/ \E k \in DOMAIN scrapeTask : ScrapeUrlSettles(k)
    \/ ScrapeMultipleReturns
    \/ ScrapeReturned
    \/ AssetsSettle
    \/ TemplateSearchSettles
    \/ BackfillScrapeSettles
    \/ BackfillReturned
    \/ AnalysisSettles

SpecPipeline == InitPipeline /\ [][NextPipeline]_vars

-----------------------------------------------------------------------------
(* Claims about processCryptoQuery *)

\* C14 (as claimed): when the model answers the expansion with the rejection
\* sentence, processCryptoQuery calls neither searchWithExa nor
\* scrapeMultiple nor generateFinalAnalysis and returns the rejection
\* sentence.
C14_RejectionShortCircuits ==
    Rejected =>
       /\ \A k \in DOMAIN calls :
             calls[k] \notin {"searchWithExa", "scrapeMultiple", "generateFinalAnalysis"}
       /\ ppc = "returned" => output = RejectionSentence

\* C16 (as claimed): when generateFinalAnalysis is called, every real token
\* of the query has a pattern in at least one of the contents handed over.
C16_EveryRealAssetGrounded ==
    "generateFinalAnalysis" \in Range(calls) =>
       \A k \in DOMAIN realTokens :
          \E d \in DOMAIN scrapedContents :
             HasTokenContent(realTokens[k], scrapedContents[d])

\* The number of contents scrapeMultiple returned that have the token
MainPassCoverage(token) ==
    Cardinality({d \in DOMAIN scrapedResults : HasTokenContent(token, scrapedResults[d])})

\* C17: searchForMissingTokens is called only with real tokens that no
\* content of the main pass has (a real token with coverage 1 or more is
\* never handed to it), and the coverage recorded for a real token is never
\* below its coverage after the main pass, also after the backfill.
C17_BackfillOnlyForUncovered ==
    /\ "searchForMissingTokens" \in Range(calls) => Len(missingTokens) > 0
    /\ \A t \in DOMAIN missingTokens :
          /\ missingTokens[t] \in Range(realTokens)
          /\ MainPassCoverage(missingTokens[t]) = 0
    /\ \A k \in DOMAIN realTokens :
          /\ MainPassCoverage(realTokens[k]) >= 1 => realTokens[k] \notin Range(missingTokens)
          /\ tokenCoverage[k] >= MainPassCoverage(realTokens[k])

\* The query names Bitcoin and Dogecoin; the main pass found one content
\* with Dogecoin and none with Bitcoin; the backfill ran for Bitcoin alone
\* and its content has both, so the coverage went from 0, 1 to 1, 2.
C17_Witness ==
    /\ ppc = "generateFinalAnalysis"
    /\ Len(realTokens) = 2
    /\ realTokens[1].name = "bitcoin"
    /\ realTokens[2].name = "dogecoin"
    /\ MainPassCoverage(realTokens[1]) = 0
    /\ MainPassCoverage(realTokens[2]) = 1
    /\ Len(missingTokens) = 1
    /\ missingTokens[1].name = "bitcoin"
    /\ Len(additionalContents) = 1
    /\ tokenCoverage = <<1, 2>>

\* A pattern of the token matches the text
Detects(token, text) ==
    \E p \in DOMAIN token.patterns : Test(token.patterns[p], text)

\* C21 (as claimed): when the query names two assets or more, each query
\* handed to searchWithExa is matched by the patterns of exactly one of the
\* detected tokens.
C21_Segmentation ==
    LET detected == ExtractCryptoTokens(originalQuery)
    IN Len(detected) >= 2 =>
          \A k \in DOMAIN searchQueries :
             Cardinality({t \in DOMAIN detected : Detects(detected[t], searchQueries[k])}) = 1

\* The names of the tokens reported as unrecognized
ReportedFake ==
    UNION {Range(log[k].tokens) : k \in {j \in DOMAIN log : log[j].text = "Unrecognized/fake assets"}}

\* C22 (as claimed): once the catalog is there, every detected token is
\* either a real token or reported as unrecognized, never both, and
\* adequate coverage of all tokens is reported only when no detected token
\* is unrecognized.
C22_FakeTokensGateSuccess ==
    cachedCoinGeckoAssets # Null =>
       /\ \A d \in DOMAIN detectedTokens :
             (detectedTokens[d] \in Range(realTokens))
                # (detectedTokens[d].name \in ReportedFake)
       /\ (\E k \in DOMAIN log : log[k].text = "All tokens have adequate coverage")
             => ReportedFake = {}

\* The request of the catalog has failed: the run is over and no catalog
\* was stored
FetchFailed ==
    /\ ppc = "returned"
    /\ "fetchAllCoinGeckoAssets" \in Range(calls)
    /\ cachedCoinGeckoAssets = Null

\* C24 (as claimed): when the request of the catalog fails, the run does
\* not end with an error: generateFinalAnalysis is still called.
C24_CatalogFailureDegrades ==
    FetchFailed =>
       /\ "generateFinalAnalysis" \in Range(calls)
       /\ output # ErrorOutput([status |-> 500, message |-> "Internal Server Error"])

-----------------------------------------------------------------------------
(* retrieveCoinIDs and findMatchingAssets *)

\* In this section a string is the sequence of its characters.
\* String.prototype.toLowerCase
LowerChars(s) ==
    [j \in DOMAIN s |->
        CASE s[j] = "B" -> "b"
          [] s[j] = "C" -> "c"
          [] s[j] = "T" -> "t"
          [] OTHER -> s[j]]

\* String.prototype.includes
Includes(s, t) ==
    \E a \in 1..(Len(s) - Len(t) + 1) : SubSeq(s, a, a + Len(t) - 1) = t

\* part_001 line 1568: words the query can have
TokenWords ==
    { <<"B", "T", "C">>,
      <<"b", "i", "t", "c", "o", "i", "n">>,
      <<"c", "o", "i", "n">>,
      <<"C", "a", "s", "h">>,
      <<"p", "e", "a", "r">> }

\* part_001 lines 1462-1500: the coins of the catalog; two of them have the
\* same symbol but for the case, as coins of the market do
Coins ==
    << [id |-> "bitcoin", symbol |-> <<"b", "t", "c">>,
        name |-> <<"B", "i", "t", "c", "o", "i", "n">>],
       [id |-> "bitcoin-cash", symbol |-> <<"b", "c", "h">>,
        name |-> <<"B", "i", "t", "c", "o", "i", "n", " ", "C", "a", "s", "h">>],
       [id |-> "batcat", symbol |-> <<"B", "T", "C">>,
        name |-> <<"B", "a", "t", "C", "a", "t">>] >>

\* Array.prototype.find over the catalog: the index of the first asset that
\* satisfies the test, 0 when there is none
Find(assets, Test1(_)) ==
    LET hits == {a \in DOMAIN assets : Test1(assets[a])}
    IN IF hits = {} THEN 0 ELSE CHOOSE a \in hits : \A b \in hits : a <= b

\* part_001 lines 1510-1536: retrieveCoinIDs
RetrieveCoinIDs(tokens, kb) ==
    LET RECURSIVE Loop(_, _)
        Loop(k, detected) ==
            IF k > Len(tokens) THEN detected
            ELSE LET lowerToken == LowerChars(tokens[k])
                     Exact(asset) == \/ LowerChars(asset.symbol) = lowerToken
                                     \/ LowerChars(asset.name) = lowerToken
                     Partial(asset) == Includes(LowerChars(asset.name), lowerToken)
                     match == IF Find(kb, Exact) # 0 THEN Find(kb, Exact)
                              ELSE Find(kb, Partial)
                 IN Loop(k + 1,
                         IF /\ match # 0
                            /\ \A d \in DOMAIN detected : detected[d].id # kb[match].id
                         THEN Append(detected, kb[match])
                         ELSE detected)
    IN Loop(1, <<>>)

\* part_001 lines 712-736: findMatchingAssets
FindMatchingAssets(tokens, assetList) ==
    LET lowerTokens == [t \in DOMAIN tokens |-> LowerChars(tokens[t])]
        Exact(asset) ==
            \E t \in DOMAIN lowerTokens :
               \/ LowerChars(asset.symbol) = lowerTokens[t]
               \/ LowerChars(asset.name) = lowerTokens[t]
        RECURSIVE Partials(_, _, _)
        Partials(t, a, matches) ==
            IF t > Len(lowerTokens) THEN matches
            ELSE IF a > Len(assetList) THEN Partials(t + 1, 1, matches)
            ELSE Partials(t, a + 1,
                          IF /\ Includes(LowerChars(assetList[a].name), lowerTokens[t])
                             /\ \A m \in DOMAIN matches : matches[m].id # assetList[a].id
                          THEN Append(matches, assetList[a])
                          ELSE matches)
    IN Partials(1, 1, SelectSeq(assetList, Exact))

\* part_001 line 1649: retrieveCoinIDs is called and returns
RetrieveCoinIDsCall ==
    /\ rpc = "called"
    /\ detectedAssets' = RetrieveCoinIDs(potentialTokens, knowledgeBase)
    /\ rpc' = "retrieveCoinIDs"
    /\ UNCHANGED <<caller, batchVars, searchVars, scrapeVars, pipeVars,
                   potentialTokens, knowledgeBase>>

\* part_001 line 741: findMatchingAssets is called and returns
FindMatchingAssetsCall ==
    /\ rpc = "called"
    /\ detectedAssets' = FindMatchingAssets(potentialTokens, knowledgeBase)
    /\ rpc' = "findMatchingAssets"
    /\ UNCHANGED <<caller, batchVars, searchVars, scrapeVars, pipeVars,
                   potentialTokens, knowledgeBase>>

InitResolve ==
    /\ caller = "resolve"
    /\ NoBatch
    /\ NoScrape
    /\ NoPipe
    /\ potentialTokens \in SeqsUpTo(TokenWords, MaxTokens)
    /\ knowledgeBase \in {Coins, <<Coins[3], Coins[2], Coins[1]>>}
    /\ detectedAssets = <<>>
    /\ rpc = "called"

NextResolve ==
    \/ RetrieveCoinIDsCall
    \/ FindMatchingAssetsCall

SpecResolve == InitResolve /\ [][NextResolve]_vars

-----------------------------------------------------------------------------
(* Claims about the catalog resolution *)

\* The entry of the catalog a token stands for: the first one whose symbol
\* or name is the token but for the case, else the first one whose name
\* contains it, 0 when there is neither
Resolution(token) ==
    LET lower == LowerChars(token)
        exact == {a \in DOMAIN knowledgeBase :
                     \/ LowerChars(knowledgeBase[a].symbol) = lower
                     \/ LowerChars(knowledgeBase[a].name) = lower}
        partial == {a \in DOMAIN knowledgeBase :
                       Includes(LowerChars(knowledgeBase[a].name), lower)}
        First(S) == CHOOSE a \in S : \A b \in S : a <= b
    IN IF exact # {} THEN First(exact)
       ELSE IF partial # {} THEN First(partial) ELSE 0

\* What C23 says of the list a resolution has returned
FirstMatchWins ==
    /\ \A d \in DOMAIN detectedAssets :
          \E t \in DOMAIN potentialTokens :
             /\ Resolution(potentialTokens[t]) # 0
             /\ detectedAssets[d] = knowledgeBase[Resolution(potentialTokens[t])]
    /\ \A t \in DOMAIN potentialTokens :
          Resolution(potentialTokens[t]) # 0 =>
             knowledgeBase[Resolution(potentialTokens[t])] \in Range(detectedAssets)
    /\ \A a, b \in DOMAIN detectedAssets :
          a # b => detectedAssets[a].id # detectedAssets[b].id
    /\ Len(detectedAssets) <= Len(potentialTokens)

\* C23 (as claimed): the list either function returns has, for each token,
\* at most the one entry the token stands for, no two entries with the
\* same id, and at most as many entries as there are tokens.
C23_OneEntryPerToken == rpc # "called" => FirstMatchWins

-----------------------------------------------------------------------------
(* main of the stand-alone script, part_001 lines 1606-1697 *)

\* What main has printed as the outcome of the run
Printed(text) == Append(log, Reported(text, <<>>))

\* lines 1694-1696: the catch of main
ErrorInMain == "Error in main()"

\* lines 1618-1619, 1503-1506: setupKnowledgeBase settles: with the catalog,
\* or after a failure with the fatal error and process.exit(1)
KnowledgeBaseSettles ==
    /\ ppc = "setupKnowledgeBase"
    /\ \E o \in {Throws([status |-> 500, message |-> "Internal Server Error"]),
                 Returns(Coins), Returns(<<Coins[3], Coins[2], Coins[1]>>)} :
          IF o.kind = "throw"
          THEN /\ ppc' = "exited"
               /\ log' = Printed("Fatal Error: Could not fetch CoinGecko asset list")
               /\ UNCHANGED knowledgeBase
          ELSE /\ ppc' = "sanitizeQueryWithAgent"
               /\ knowledgeBase' = o.value
               /\ UNCHANGED log
    /\ UNCHANGED <<caller, batchVars, searchVars, scrapeVars, multiVars,
                   expandVars, backfillVars, calls, searchQueries, searchUrls,
                   scrapedContents, detectedTokens, realTokens, tokenCoverage,
                   output, cachedCoinGeckoAssets, potentialTokens,
                   detectedAssets, rpc>>

\* lines 1621-1631: sanitizeQueryWithAgent settles: with the rejection
\* sentence, which is printed, or with a query, which isCryptoRelated is
\* asked about; the sanitized query is kept in searchQueries until
\* generateSynonyms is called with it
SanitizeSettles ==
    /\ ppc = "sanitizeQueryWithAgent"
    /\ \E o \in {Throws([status |-> 0, message |-> "model call failed"])}
                   \cup {Returns(q) : q \in Queries \cup {RejectionSentence}} :
          IF o.kind = "throw"
          THEN /\ ppc' = "returned"
               /\ log' = Printed(ErrorInMain)
               /\ UNCHANGED searchQueries
          ELSE IF o.value = RejectionSentence
               THEN /\ ppc' = "returned"
                    /\ log' = Printed("Sorry, please ask about crypto-related insights.")
                    /\ UNCHANGED searchQueries
               ELSE /\ ppc' = "isCryptoRelated"
                    /\ searchQueries' = <<o.value>>
                    /\ UNCHANGED log
    /\ UNCHANGED <<caller, batchVars, searchVars, scrapeVars, multiVars,
                   expandVars, backfillVars, calls, searchUrls,
                   scrapedContents, detectedTokens, realTokens, tokenCoverage,
                   output, cachedCoinGeckoAssets, toolVars>>

\* lines 1627-1634: isCryptoRelated settles: no prints the rejection
\* sentence, yes calls generateSynonyms(sanitizedQuery)
RelevanceSettles ==
    /\ ppc = "isCryptoRelated"
    /\ \E o \in {Throws([status |-> 0, message |-> "model call failed"]),
                 Returns("yes"), Returns("no")} :
          IF o.kind = "throw" \/ o.value = "no"
          THEN /\ ppc' = "returned"
               /\ log' = Printed(IF o.kind = "throw" THEN ErrorInMain
                                 ELSE "Sorry, please ask about crypto-related insights.")
               /\ UNCHANGED <<originalQuery, gspc>>
          ELSE /\ ppc' = "generateSynonyms"
               /\ originalQuery' = searchQueries[1]
               /\ gspc' = "ask"
               /\ UNCHANGED log
    /\ UNCHANGED <<caller, batchVars, searchVars, scrapeVars, multiVars,
                   modelOutcome, synonymResponse, backfillVars, calls,
                   searchQueries, searchUrls, scrapedContents, detectedTokens,
                   realTokens, tokenCoverage, output, cachedCoinGeckoAssets,
                   toolVars>>

\* lines 1634-1657: generateSynonyms has settled. Its error is printed by
\* the catch. Without synonyms main returns, and prints nothing. Else the
\* assets are retrieved; without assets main prints that and returns, else
\* fetchDetailedCoinData is called.
MainSynonymsSettled ==
    /\ ppc = "generateSynonyms"
    /\ gspc \in {"resolved", "rejected"}
    /\ IF gspc = "rejected"
       THEN /\ ppc' = "returned"
            /\ log' = Printed(ErrorInMain)
            /\ UNCHANGED <<detectedAssets, rpc>>
       ELSE IF Len(synonymResponse[1].synonyms) = 0
            THEN /\ ppc' = "returned"
                 /\ UNCHANGED <<log, detectedAssets, rpc>>
            ELSE /\ detectedAssets' = RetrieveCoinIDs(potentialTokens, knowledgeBase)
                 /\ rpc' = "retrieveCoinIDs"
                 /\ IF Len(detectedAssets') = 0
                    THEN /\ ppc' = "returned"
                         /\ log' = Printed("Sorry, could not identify any known cryptocurrencies in your query.")
                    ELSE /\ ppc' = "fetchDetailedCoinData"
                         /\ UNCHANGED log
    /\ UNCHANGED <<caller, batchVars, searchVars, scrapeVars, multiVars,
                   expandVars, backfillVars, calls, searchQueries, searchUrls,
                   scrapedContents, detectedTokens, realTokens, tokenCoverage,
                   output, cachedCoinGeckoAssets, potentialTokens,
                   knowledgeBase>>

\* lines 1659-1665, 1688-1696: the awaits of the rest of main, in order.
\* fetchDetailedCoinData, searchWithExa and scrapeMultiple catch their
\* errors; generateFinalAnalysis can throw, which the catch prints, or
\* returns the analysis, which is printed
RestOfMain ==
    <<"fetchDetailedCoinData", "searchWithExa", "scrapeMultiple",
      "generateFinalAnalysis">>

AwaitSettles ==
    /\ ppc \in Range(RestOfMain)
    /\ \E ok \in BOOLEAN :
          IF ppc # "generateFinalAnalysis"
          THEN /\ ok
               /\ ppc' = RestOfMain[1 + CHOOSE k \in DOMAIN RestOfMain : RestOfMain[k] = ppc]
               /\ UNCHANGED log
          ELSE /\ ppc' = "returned"
               /\ log' = Printed(IF ok THEN "Final Analysis" ELSE ErrorInMain)
    /\ calls' = Append(calls, ppc)
    /\ UNCHANGED <<caller, batchVars, searchVars, scrapeVars, multiVars,
                   expandVars, backfillVars, searchQueries, searchUrls,
                   scrapedContents, detectedTokens, realTokens, tokenCoverage,
                   output, cachedCoinGeckoAssets, toolVars>>

\* lines 819, 1567-1571, 1606-1619: main starts; potentialTokens are the
\* words of the constant userQuery that extractPotentialTokens keeps
InitMain ==
    /\ caller = "main"
    /\ NoBatch
    /\ NoScrape
    /\ NoMultiple
    /\ NoExpand
    /\ NoBackfill
    /\ ppc = "setupKnowledgeBase"
    /\ calls = <<>>
    /\ searchQueries = <<>>
    /\ searchUrls = <<>>
    /\ scrapedContents = <<>>
    /\ detectedTokens = <<>>
    /\ realTokens = <<>>
    /\ tokenCoverage = <<>>
    /\ output = <<>>
    /\ log = <<>>
    /\ cachedCoinGeckoAssets = Null
    /\ potentialTokens \in SeqsUpTo(TokenWords, MaxTokens)
    /\ knowledgeBase = <<>>
    /\ detectedAssets = <<>>
    /\ rpc = "idle"

NextMain ==
    \/ KnowledgeBaseSettles
    \/ SanitizeSettles
    \/ RelevanceSettles
    \/ ScriptAskSettles
    \/ MainSynonymsSettled
    \/ AwaitSettles

SpecMain == InitMain /\ [][NextMain]_vars

-----------------------------------------------------------------------------
(* Claims about the end of a run *)

\* The texts of the three outcomes a run may end with
OutcomeTexts ==
    {"Sorry, please ask about crypto-related insights.", "Final Analysis",
     "Fatal Error: Could not fetch CoinGecko asset list", ErrorInMain}

\* C25 (as claimed): a run that is over has printed exactly one outcome:
\* the rejection sentence, the analysis, or an error.
C25_OneOfThreeOutcomes ==
    ppc \in {"returned", "exited"} =>
       /\ Len(log) = 1
       /\ log[1].text \in OutcomeTexts

-----------------------------------------------------------------------------
(* scrapeMultiple calls of a tool that holds one scraper *)

\* part_003 lines 71, 214: the calls of runAsync the tool receives, each
\* with the URLs it hands to this.scraper.scrapeMultiple
ToolUrls == <<SubSeq(Urls, 1, 2), SubSeq(Urls, 3, 3)>>

\* The scrapeMultiple call of a runAsync that has not reached it yet
IdleCall(us) ==
    [urls |-> us, pc |-> "idle", task |-> <<>>, results |-> <<>>,
     saved |-> "none", batch |-> <<>>]

\* scraper.ts lines 44-47: call c starts scrapeUrl for every URL and awaits
\* Promise.allSettled
ToolScrapeStarts(c) ==
    /\ scrapeCalls[c].pc = "idle"
    /\ scrapeCalls' =
          [scrapeCalls EXCEPT ![c].pc = "allSettled",
                              ![c].task = [k \in DOMAIN scrapeCalls[c].urls |-> PendingScrape]]
    /\ UNCHANGED <<caller, toolVars, batchVars, searchVars, scrapeVars,
                   smUrls, smpc, scrapeTask, scrapedResults, savedFiles,
                   expandVars, backfillVars, processVars>>

\* scraper.ts lines 63-91, 201-204: scrapeUrl number k of call c settles;
\* what it built is pushed to the scrapedContentArray of the one scraper
ToolScrapeUrlSettles(c, k) ==
    /\ scrapeCalls[c].pc = "allSettled"
    /\ scrapeCalls[c].task[k].status = "pending"
    /\ \E o \in ScrapeUrlOutcomes(scrapeCalls[c].urls[k]) :
          /\ scrapeCalls' = [scrapeCalls EXCEPT ![c].task[k] = o]
          /\ scrapedContentArray' =
                IF o.status = "fulfilled"
                THEN scrapedContentArray \o o.value
                ELSE scrapedContentArray
    /\ UNCHANGED <<caller, toolVars, batchVars, searchVars, url, scpc,
                   strategy, settleOrder, scraped, smUrls, smpc, scrapeTask,
                   scrapedResults, savedFiles, expandVars, backfillVars,
                   processVars>>

\* scraper.ts lines 45-60, 229-267: allSettled of call c resolves; when the
\* call scraped something, saveAllScrapedContentToFile writes the whole
\* scrapedContentArray to a file and clears it, or the write throws
ToolScrapeReturns(c) ==
    /\ scrapeCalls[c].pc = "allSettled"
    /\ \A k \in DOMAIN scrapeCalls[c].task : scrapeCalls[c].task[k].status # "pending"
    /\ LET scrapedResultsOfCall == FulfilledValues(scrapeCalls[c].task, 1)
       IN \E written \in BOOLEAN :
             IF scrapedResultsOfCall = <<>>
             THEN /\ written
                  /\ scrapeCalls' = [scrapeCalls EXCEPT ![c].pc = "returned"]
                  /\ UNCHANGED <<savedFiles, scrapedContentArray>>
             ELSE IF written
                  THEN /\ scrapeCalls' =
                             [scrapeCalls EXCEPT ![c].pc = "returned",
                                                 ![c].results = scrapedResultsOfCall,
                                                 ![c].saved = "written",
                                                 ![c].batch = scrapedContentArray]
                       /\ savedFiles' = Append(savedFiles, scrapedContentArray)
                       /\ scrapedContentArray' = <<>>
                  ELSE /\ scrapeCalls' =
                             [scrapeCalls EXCEPT ![c].pc = "returned",
                                                 ![c].results = scrapedResultsOfCall,
                                                 ![c].saved = "failed"]
                       /\ UNCHANGED <<savedFiles, scrapedContentArray>>
    /\ UNCHANGED <<caller, toolVars, batchVars, searchVars, url, scpc,
                   strategy, settleOrder, scraped, smUrls, smpc, scrapeTask,
                   scrapedResults, expandVars, backfillVars, processVars>>

\* part_003 lines 60-73: the tool is constructed with its one scraper
InitTool ==
    /\ caller = "EnhancedExaTool"
    /\ NoTool
    /\ NoBatch
    /\ NoScrape
    /\ NoExpand
    /\ NoBackfill
    /\ NoProcess
    /\ smUrls = <<>>
    /\ smpc = "idle"
    /\ scrapeTask = <<>>
    /\ scrapedResults = <<>>
    /\ savedFiles = <<>>
    /\ scrapeCalls = [c \in DOMAIN ToolUrls |-> IdleCall(ToolUrls[c])]

NextTool ==
    \/ \E c \in DOMAIN scrapeCalls : ToolScrapeStarts(c)
    \/ \E c \in DOMAIN scrapeCalls :
          \E k \in DOMAIN scrapeCalls[c].task : ToolScrapeUrlSettles(c, k)
    \/ \E c \in DOMAIN scrapeCalls : ToolScrapeReturns(c)

SpecTool == InitTool /\ [][NextTool]_vars

-----------------------------------------------------------------------------
(* Claims about calls that share a scraper *)

\* The documents of the batches written to files
SavedDocuments(doc) ==
    UNION {{<<c, k>> : k \in {j \in DOMAIN scrapeCalls[c].batch :
                                 scrapeCalls[c].batch[j].url = doc.url}}
              : c \in DOMAIN scrapeCalls}

\* C26 (as claimed): the batch a call saves has only documents of the URLs
\* of that call, and when all calls have returned and no write has failed,
\* each document a call scraped is in exactly one batch.
C26_ContentLocalToCall ==
    /\ \A c \in DOMAIN scrapeCalls :
          \A k \in DOMAIN scrapeCalls[c].batch :
             scrapeCalls[c].batch[k].url \in Range(scrapeCalls[c].urls)
    /\ (\A c \in DOMAIN scrapeCalls :
           scrapeCalls[c].pc = "returned" /\ scrapeCalls[c].saved # "failed")
          => \A c \in DOMAIN scrapeCalls :
                \A d \in DOMAIN scrapeCalls[c].results :
                   Cardinality(SavedDocuments(scrapeCalls[c].results[d])) = 1

-----------------------------------------------------------------------------
(* MainCryptoAgent.runAsync *)

\* part_006 line 303: synonyms.slice(0, 5)
AgentMaxSynonyms == 5

\* part_006 line 276: the text response.includes looks for, and the strings
\* of the model that have it
RejectionText == "Sorry, please ask about crypto-related insights"
HasRejectionText(s) ==
    \E j \in DOMAIN s : s[j].c \in {RejectionText, RejectionText \o "."}

\* The lines an answer of gpt-4o about q is made of
AgentLines(q) ==
    { Open, Close,
      Pair(1, "string", Sp(q, Str("news"))),
      Pair(1, "number", Str("7")),
      Pair(2, "string", RejectionSentence),
      Numbered(1, Sp(q, Str("forecast"))),
      Prose(RejectionSentence) }

\* part_006 line 266: the completion throws, or returns the content, ""
\* when there is none
CompletionOutcomes(q) ==
    {Throws([status |-> 0, message |-> "model call failed"])}
       \cup {Returns(a) : a \in SeqsUpTo(AgentLines(q), MaxLines) \cup {LongAnswer(q)}}

\* part_006 line 276: response.includes("Sorry, please ask about
\* crypto-related insights")
IsRejectionMut(response) == response # <<>> /\ HasRejectionText(response[1].value)

IsRejection(response) ==
    \E j \in DOMAIN response : HasRejectionText(response[j].value)

RECURSIVE ObjectValues(_, _)
\* part_006 line 291: Object.values(jsonData).filter(value => typeof value
\* === 'string'), integer keys in ascending order
ObjectValues(jsonData, keys) ==
    IF keys = {} THEN <<>>
    ELSE LET k == CHOOSE x \in keys : \A y \in keys : x <= y
         IN (IF jsonData[k].type = "string" THEN <<jsonData[k].value>> ELSE <<>>)
            \o ObjectValues(jsonData, keys \ {k})

RECURSIVE NumberedList(_)
\* part_006 lines 294-295, 299-300: the lines that start with k. without
\* the number, trimmed, the empty ones dropped
NumberedList(response) ==
    IF response = <<>> THEN <<>>
    ELSE (IF Head(response).kind = "numbered" /\ Trim(Head(response).value) # <<>>
          THEN <<Trim(Head(response).value)>> ELSE <<>>)
         \o NumberedList(Tail(response))

\* part_006 lines 285-305: the synonyms of an answer that is no rejection
AgentSynonyms(response) ==
    LET jsonMatch == JsonMatch(response)
        synonyms ==
            IF jsonMatch # <<>> /\ JsonValid(jsonMatch)
            THEN ObjectValues(JsonParse(jsonMatch), DOMAIN JsonParse(jsonMatch))
            ELSE NumberedList(response)
    IN Slice(synonyms, AgentMaxSynonyms)

\* part_006 lines 78-85, 134-142: what runAsync returns without a report
Failure(message) == <<[success |-> FALSE, error |-> message]>>

\* part_006 lines 104-132: what runAsync returns with a report
Success == <<[success |-> TRUE, error |-> <<>>]>>

\* part_006 line 340: one exa.searchAndContents(searchQuery) per query
SearchCalls(queries) ==
    [k \in DOMAIN queries |-> [fn |-> "searchAndContents", query |-> queries[k]]]

\* part_006 lines 73-97, 266-316, 338-340: the completion settles. Its error
\* is thrown on as 'Synonym generation failed' and caught by runAsync; a
\* rejection is returned at once; otherwise the searches of the query and
\* of its synonyms start
CompletionSettles ==
    /\ ppc = "generateCryptoSynonyms"
    /\ \E o \in CompletionOutcomes(originalQuery) :
          /\ modelOutcome' = o
          /\ IF o.kind = "throw"
             THEN /\ gspc' = "rejected"
                  /\ synonymResponse' = <<>>
                  /\ output' = Failure(Sp(Str("Synonym generation failed:"),
                                          Str(o.err.message)))
                  /\ ppc' = "returned"
                  /\ UNCHANGED <<searchQueries, calls>>
             ELSE IF IsRejection(o.value)
                  THEN /\ gspc' = "resolved"
                       /\ synonymResponse' =
                             <<[isValidCryptoQuery |-> FALSE, synonyms |-> <<>>,
                                originalQuery |-> originalQuery]>>
                       /\ output' = Failure(RejectionSentence)
                       /\ ppc' = "returned"
                       /\ UNCHANGED <<searchQueries, calls>>
                  ELSE /\ gspc' = "resolved"
                       /\ synonymResponse' =
                             <<[isValidCryptoQuery |-> TRUE,
                                synonyms |-> AgentSynonyms(o.value),
                                originalQuery |-> originalQuery]>>
                       /\ searchQueries' = <<originalQuery>> \o AgentSynonyms(o.value)
                       /\ calls' = calls \o SearchCalls(searchQueries')
                       /\ ppc' = "executeEnhancedSearch"
                       /\ UNCHANGED output
    /\ UNCHANGED <<caller, toolVars, batchVars, searchVars, scrapeVars,
                   multiVars, originalQuery, backfillVars, searchUrls,
                   scrapedContents, detectedTokens, realTokens, tokenCoverage,
                   log, cachedCoinGeckoAssets>>

\* part_006 lines 368-404: Promise.all of the searches resolves (a failed
\* search counts as one without results); the URLs found are handed to
\* this.scraper.scrapeMultiple
EnhancedSearchSettles ==
    /\ ppc = "executeEnhancedSearch"
    /\ \E us \in SearchResults : searchUrls' = us
    /\ calls' = Append(calls, [fn |-> "scrapeMultiple", query |-> <<>>])
    /\ ppc' = "scrapeMultiple"
    /\ UNCHANGED <<caller, toolVars, batchVars, searchVars, scrapeVars,
                   multiVars, expandVars, backfillVars, searchQueries,
                   scrapedContents, detectedTokens, realTokens, tokenCoverage,
                   output, log, cachedCoinGeckoAssets>>

\* part_006 lines 100-101, 403-404: scrapeMultiple settles, with the pages
\* of all URLs or, when it threw, none; generateFinalAnalysis is called
AgentScrapeSettles ==
    /\ ppc = "scrapeMultiple"
    /\ \E scrapedOk \in BOOLEAN :
          scrapedContents' =
             IF scrapedOk THEN [k \in DOMAIN searchUrls |-> [url |-> searchUrls[k]]]
             ELSE <<>>
    /\ calls' = Append(calls, [fn |-> "generateFinalAnalysis", query |-> <<>>])
    /\ ppc' = "generateFinalAnalysis"
    /\ UNCHANGED <<caller, toolVars, batchVars, searchVars, scrapeVars,
                   multiVars, expandVars, backfillVars, searchQueries,
                   searchUrls, detectedTokens, realTokens, tokenCoverage,
                   output, log, cachedCoinGeckoAssets>>

\* part_006 lines 101-132, 147-200: generateFinalAnalysis catches the error
\* of its model and always resolves; runAsync returns the report
AgentAnalysisSettles ==
    /\ ppc = "generateFinalAnalysis"
    /\ \E o \in AnalysisOutcomes :
          log' = Append(log, IF o.kind = "throw"
                             THEN Sp(Str("Analysis generation failed:"),
                                     Str(o.err.message))
                             ELSE o.value)
    /\ output' = Success
    /\ ppc' = "returned"
    /\ UNCHANGED <<caller, toolVars, batchVars, searchVars, scrapeVars,
                   multiVars, expandVars, backfillVars, calls, searchQueries,
                   searchUrls, scrapedContents, detectedTokens, realTokens,
                   tokenCoverage, cachedCoinGeckoAssets>>

\* part_006 lines 51-72: runAsync is called with a query and awaits
\* generateCryptoSynonyms
InitAgent ==
    /\ caller = "MainCryptoAgent"
    /\ NoTool
    /\ NoBatch
    /\ NoScrape
    /\ NoMultiple
    /\ NoBackfill
    /\ \E q \in Queries : GenerateSynonymsCall(q)
    /\ ppc = "generateCryptoSynonyms"
    /\ calls = <<>>
    /\ searchQueries = <<>>
    /\ searchUrls = <<>>
    /\ scrapedContents = <<>>
    /\ detectedTokens = <<>>
    /\ realTokens = <<>>
    /\ tokenCoverage = <<>>
    /\ output = <<>>
    /\ log = <<>>
    /\ cachedCoinGeckoAssets = Null

NextAgent ==
    \/ CompletionSettles
    \/ EnhancedSearchSettles
    \/ AgentScrapeSettles
    \/ AgentAnalysisSettles

SpecAgent == InitAgent /\ [][NextAgent]_vars

-----------------------------------------------------------------------------
(* Claims about MainCryptoAgent.runAsync *)

\* C27: when the answer of the model contains the rejection sentence,
\* runAsync returns success = false with the rejection message and has made
\* no search and no scrape; for an accepted query the queries searched are
\* the original query followed by at most 5 synonyms, one search each.
C27_AgentRejectsOrSearches ==
    modelOutcome.kind = "return" =>
       IF \E j \in DOMAIN modelOutcome.value :
             modelOutcome.value[j].value = RejectionSentence
       THEN /\ ppc = "returned"
            /\ output = Failure(RejectionSentence)
            /\ calls = <<>>
            /\ searchQueries = <<>>
       ELSE /\ synonymResponse[1].isValidCryptoQuery
            /\ searchQueries = <<originalQuery>> \o synonymResponse[1].synonyms
            /\ Len(searchQueries) <= 1 + 5
            /\ SelectSeq(calls, LAMBDA call : call.fn = "searchAndContents")
                  = SearchCalls(searchQueries)

\* A rejection that follows a numbered line and a member has been answered
C27_Witness ==
    /\ modelOutcome.kind = "return"
    /\ Len(modelOutcome.value) = 3
    /\ modelOutcome.value[1].kind = "numbered"
    /\ modelOutcome.value[3] = Pair(2, "string", RejectionSentence)
    /\ output = Failure(RejectionSentence)
    /\ calls = <<>>
====
